---------------------------- MODULE Spec2Model ----------------------------
(***************************************************************************)
(* A model of coiiot_client, the agent-side SDK of the VK IoT platform:    *)
(* the strict decoders of coiiot_client/common.py, the request/response    *)
(* client of coiiot_client/http.py and the publish/subscribe client of     *)
(* coiiot_client/mqtt.py.                                                  *)
(*                                                                         *)
(* Python values are tagged records: [t |-> "null"], [t |-> "bool", b],    *)
(* [t |-> "int", hi, lo], [t |-> "str", s], [t |-> "list", l] and          *)
(* [t |-> "obj", o].  An int is kept as two base-1000000 digits            *)
(* (hi * 1000000 + lo), because a microsecond timestamp does not fit the   *)
(* model checker's 32-bit integers.  A call that can raise returns         *)
(* either [ok |-> TRUE, val |-> v] or [ok |-> FALSE, exc |-> kind,         *)
(* arg |-> the exception's argument].                                      *)
(***************************************************************************)
EXTENDS Integers, Sequences, FiniteSets, TLC

\***************************************************************************
\* Python values
\***************************************************************************

Million == 1000000

None == [t |-> "null"]

JBool(b) == [t |-> "bool", b |-> b]

JInt(n) == [t |-> "int", hi |-> n \div Million, lo |-> n % Million]

JBig(hi, lo) == [t |-> "int", hi |-> hi, lo |-> lo]

JStr(s) == [t |-> "str", s |-> s]

JList(l) == [t |-> "list", l |-> l]

JObj(o) == [t |-> "obj", o |-> o]

EmptyObj == JObj(<<>>)

Ok(v) == [ok |-> TRUE, val |-> v]

\* An exception of class kind, raised with the Python value arg.
Raise(kind, arg) == [ok |-> FALSE, exc |-> kind, arg |-> arg]

\* The first exception of a sequence of results, in evaluation order.
RECURSIVE FirstError(_)
FirstError(rs) ==
    IF ~Head(rs).ok THEN Head(rs) ELSE FirstError(Tail(rs))

AllOk(rs) == \A i \in 1..Len(rs) : rs[i].ok

\* A constructor call: its arguments are evaluated in order, the first
\* exception leaves the call, and otherwise the object is built.
Construct(rs, obj) == IF AllOk(rs) THEN Ok(obj) ELSE FirstError(rs)

\* The values of a sequence of results that are all values.
Vals(rs) == [i \in 1..Len(rs) |-> rs[i].val]

\***************************************************************************
\* Binary arithmetic on naturals of any size: a natural is the sequence of
\* its bits, least significant first, without leading zeros.  It carries
\* the IEEE 754 double arithmetic of the timestamp codec.
\***************************************************************************

\* The bits are worked on in chunks of ChunkWidth bits, so that a carry or
\* a remainder times a chunk stays within the checker's integers.
ChunkWidth == 10

ChunkBase == 2 ^ ChunkWidth

\* n as exactly w bits
FixedBits(n, w) == [i \in 1..w |-> (n \div (2 ^ (i - 1))) % 2]

Strip(b) ==
    LET ones == {i \in 1..Len(b) : b[i] = 1}
    IN  IF ones = {} THEN <<>>
        ELSE SubSeq(b, 1, CHOOSE i \in ones : \A j \in ones : j <= i)

NatToBits(n) == Strip(FixedBits(n, 31))

RECURSIVE BitsToNat(_)
BitsToNat(b) == IF b = <<>> THEN 0 ELSE Head(b) + 2 * BitsToNat(Tail(b))

BitAt(b, i) == IF i >= 1 /\ i <= Len(b) THEN b[i] ELSE 0

\* The number made of the ChunkWidth bits of b from bit i up.
Chunk(b, i) == BitsToNat([j \in 1..ChunkWidth |-> BitAt(b, i + j - 1)])

Zeros(k) == [i \in 1..k |-> 0]

ShiftLeft(b, k) == IF b = <<>> THEN <<>> ELSE Zeros(k) \o b

\* floor(b / 2^k)
ShiftRight(b, k) == IF k >= Len(b) THEN <<>> ELSE SubSeq(b, k + 1, Len(b))

\* b mod 2^k is not zero
LowBitsSet(b, k) == \E i \in 1..Len(b) : i <= k /\ b[i] = 1

RECURSIVE AddCarry(_, _, _, _)
AddCarry(a, b, i, c) ==
    IF i > Len(a) /\ i > Len(b) THEN FixedBits(c, 1)
    ELSE LET s == Chunk(a, i) + Chunk(b, i) + c
         IN  FixedBits(s % ChunkBase, ChunkWidth)
                 \o AddCarry(a, b, i + ChunkWidth, s \div ChunkBase)

BitsAdd(a, b) == Strip(AddCarry(a, b, 1, 0))

\* b * c for a small c
RECURSIVE MulCarry(_, _, _, _)
MulCarry(b, c, i, carry) ==
    IF i > Len(b) THEN FixedBits(carry, 31)
    ELSE LET s == Chunk(b, i) * c + carry
         IN  FixedBits(s % ChunkBase, ChunkWidth)
                 \o MulCarry(b, c, i + ChunkWidth, s \div ChunkBase)

BitsMulSmall(b, c) == Strip(MulCarry(b, c, 1, 0))

\* Long division of b by a small d, from the most significant chunk down:
\* [q |-> floor(b / d), r |-> b mod d].
RECURSIVE DivStep(_, _, _, _, _)
DivStep(b, d, i, r, q) ==
    IF i < 1 THEN [q |-> Strip(q), r |-> r]
    ELSE LET r2 == r * ChunkBase + Chunk(b, i)
         IN  DivStep(b, d, i - ChunkWidth, r2 % d,
                     FixedBits(r2 \div d, ChunkWidth) \o q)

\* The first bit of the most significant chunk of b.
TopChunk(b) == ((Len(b) - 1) \div ChunkWidth) * ChunkWidth + 1

BitsDivSmall(b, d) ==
    IF b = <<>> THEN [q |-> <<>>, r |-> 0]
    ELSE DivStep(b, d, TopChunk(b), 0, <<>>)

\***************************************************************************
\* Python floats (IEEE 754 doubles), for the values the codec meets:
\* [m |-> bits, e |-> exponent] is m * 2^e, not negative, with at most
\* Precision significant bits.  Every operation rounds to nearest, ties to
\* even, as the hardware does.
\***************************************************************************

Precision == 53

FZero == [m |-> <<>>, e |-> 0]

\* a * 2^e (plus something below the last bit of a when sticky) rounded to
\* Precision bits.
FRound(a, e, sticky) ==
    IF Len(a) <= Precision THEN [m |-> a, e |-> e]
    ELSE LET d    == Len(a) - Precision
             m0   == ShiftRight(a, d)
             half == a[d] = 1
             low  == sticky \/ LowBitsSet(a, d - 1)
             up   == half /\ (low \/ m0[1] = 1)
         IN  [m |-> IF up THEN BitsAdd(m0, <<1>>) ELSE m0, e |-> e + d]

\* float(n) of an int given by its bits
FFromBits(a) == FRound(a, 0, FALSE)

\* x / d for a small positive int d: the quotient is taken with enough
\* extra bits for the rounding to see the half and what lies below it.
FDivSmall(x, d) ==
    IF x.m = <<>> THEN FZero
    ELSE LET k == Precision + 22
             q == BitsDivSmall(ShiftLeft(x.m, k), d)
         IN  FRound(q.q, x.e - k, q.r # 0)

FAdd(x, y) ==
    LET lo == IF x.e < y.e THEN x.e ELSE y.e
    IN  FRound(BitsAdd(ShiftLeft(x.m, x.e - lo), ShiftLeft(y.m, y.e - lo)),
               lo, FALSE)

\* x * c for a small positive int c
FMulSmall(x, c) == FRound(BitsMulSmall(x.m, c), x.e, FALSE)

\* int(x): truncation
FTrunc(x) ==
    IF x.e >= 0 THEN ShiftLeft(x.m, x.e) ELSE ShiftRight(x.m, 0 - x.e)

\* modf(x)'s fractional part, exact
FFrac(x) ==
    IF x.e >= 0 THEN FZero
    ELSE LET k == 0 - x.e
             f == Strip(SubSeq(x.m, 1, IF k < Len(x.m) THEN k ELSE Len(x.m)))
         IN  IF f = <<>> THEN FZero ELSE [m |-> f, e |-> x.e]

\* x rounded to an integer, ties to even (_PyTime_ROUND_HALF_EVEN)
FRoundHalfEven(x) ==
    IF x.e >= 0 THEN ShiftLeft(x.m, x.e)
    ELSE LET k    == 0 - x.e
             i    == ShiftRight(x.m, k)
             half == BitAt(x.m, k) = 1
             low  == LowBitsSet(x.m, k - 1)
             up   == half /\ (low \/ BitAt(i, 1) = 1)
         IN  IF up THEN BitsAdd(i, <<1>>) ELSE i

\* The bits of a Python int, and the Python int of some bits.
IntBits(v) == BitsAdd(BitsMulSmall(NatToBits(v.hi), Million), NatToBits(v.lo))

BitsInt(b) ==
    LET d == BitsDivSmall(b, Million) IN JBig(BitsToNat(d.q), d.r)

\***************************************************************************
\* coiiot_client/utils.py
\***************************************************************************

\* A datetime, as the instant it names: sec seconds and us microseconds
\* after the epoch.
DateTime(sec, us) == [t |-> "datetime", sec |-> sec, us |-> us]

\* datetime.fromtimestamp(x): the seconds of x, and the fraction of x
\* times 1e6 rounded half to even as the microseconds.
FromTimestamp(x) ==
    LET sec == BitsToNat(FTrunc(x))
        us  == BitsToNat(FRoundHalfEven(FMulSmall(FFrac(x), Million)))
    IN  IF us >= Million THEN DateTime(sec + 1, us - Million)
        ELSE DateTime(sec, us)

\* dt_from_ts: datetime.fromtimestamp(ts / 1000000.0)
dt_from_ts(ts) ==
    IF ts.t = "int"
    THEN Ok(FromTimestamp(FDivSmall(FFromBits(IntBits(ts)), Million)))
    ELSE IF ts.t = "bool"
    THEN Ok(FromTimestamp(FDivSmall(FFromBits(NatToBits(IF ts.b THEN 1 ELSE 0)),
                                    Million)))
    ELSE Raise("TypeError", JStr("unsupported operand type(s) for /"))

\* datetime.timestamp(): seconds + microsecond / 1e6
Timestamp(dt) ==
    FAdd(FFromBits(NatToBits(dt.sec)),
         FDivSmall(FFromBits(NatToBits(dt.us)), Million))

\* dt_to_ts: int(dt.timestamp() * 1000000)
dt_to_ts(dt) ==
    IF dt.t = "datetime"
    THEN Ok(BitsInt(FTrunc(FMulSmall(Timestamp(dt), Million))))
    ELSE Raise("AttributeError", JStr("object has no attribute 'timestamp'"))

\* f'Key "{key}" missing in {name}'
KeyMissing(key, name) == "Key \"" \o key \o "\" missing in " \o name

\* collection.get(key) of a dict: the value under key, or None.
DictGet(collection, key) ==
    IF key \in DOMAIN collection.o THEN collection.o[key] ELSE None

\* collection.get(key) of any value: only a dict has the method.
Get(collection, key) ==
    IF collection.t = "obj" THEN Ok(DictGet(collection, key))
    ELSE Raise("AttributeError", JStr("object has no attribute 'get'"))

\* bool(value) is False: None, False, 0, "" and the empty collections.
IsFalsy(value) ==
    CASE value.t = "null" -> TRUE
      [] value.t = "bool" -> ~value.b
      [] value.t = "int"  -> value.hi = 0 /\ value.lo = 0
      [] value.t = "str"  -> value = [t |-> "str", s |-> ""]
      [] value.t = "list" -> value.l = <<>>
      [] value.t = "obj"  -> DOMAIN value.o = {}
      [] OTHER            -> FALSE

\* get_value_or_error had it tested `if not value`.
get_truthy_or_error(collection, key, name, exception) ==
    IF collection.t # "obj"
    THEN Raise("AttributeError", JStr("object has no attribute 'get'"))
    ELSE LET value == IF key \in DOMAIN collection.o THEN collection.o[key]
                      ELSE None
         IN  IF IsFalsy(value)
             THEN Raise(exception, JStr("Key \"" \o key \o "\" missing in " \o name))
             ELSE Ok(value)

IsNone(value) == value.t = "null"

get_value_or_error(collection, key, name, exception) ==
    LET value == Get(collection, key)
    IN  IF ~value.ok THEN value
        ELSE IF IsNone(value.val)
        THEN Raise(exception, JStr(KeyMissing(key, name)))
        ELSE value

\* A lookup that hands on the null of a key and makes no collection.
get_collection_value_or_none(collection, key, factory) ==
    Get(collection, key)

\* factory is list or dict, given here by the empty value it builds.
get_collection_value(collection, key, factory) ==
    LET value == Get(collection, key)
    IN  IF ~value.ok THEN value
        ELSE IF ~IsNone(value.val) THEN value
        ELSE Ok(factory)

EmptyList == JList(<<>>)

\* The keys of a dict, as strs, one after the other.
RECURSIVE KeySeq(_)
KeySeq(keys) ==
    IF keys = {} THEN <<>>
    ELSE LET k == CHOOSE k \in keys : TRUE
         IN  <<JStr(k)>> \o KeySeq(keys \ {k})

\* What a for loop or a comprehension draws from a value: the items of a
\* list, the keys of a dict and the characters of a str (a str that is
\* not empty yields strs; the model yields the str itself for them, and
\* only their type is ever looked at); an int, a bool or None is not
\* iterable.
Iter(v) ==
    CASE v.t = "list" -> Ok(v.l)
      [] v.t = "obj"  -> Ok(KeySeq(DOMAIN v.o))
      [] v.t = "str"  -> Ok(IF v = JStr("") THEN <<>> ELSE <<v>>)
      [] OTHER        -> Raise("TypeError", JStr("object is not iterable"))

\* The values of the results that are values.
RECURSIVE Accepted(_)
Accepted(rs) ==
    IF rs = <<>> THEN <<>>
    ELSE (IF Head(rs).ok THEN <<Head(rs).val>> ELSE <<>>) \o Accepted(Tail(rs))

\* A comprehension had it kept the items its expression accepts and
\* dropped the others.
ComprehensionOfAccepted(rs) == Ok(Accepted(rs))

\* A comprehension had it built its list from the last item to the first.
ComprehensionReversed(rs) ==
    IF \A i \in 1..Len(rs) : rs[i].ok
    THEN Ok([i \in 1..Len(rs) |-> rs[Len(rs) + 1 - i].val])
    ELSE FirstError(rs)

\* [f(x) for x in items], given the result of f for each item in order:
\* the first exception leaves the comprehension.
Comprehension(rs) == Construct(rs, Vals(rs))

\***************************************************************************
\* coiiot_client/common.py
\***************************************************************************

\* Class.from_dict(raw, exception), for the class of structure st.
RECURSIVE from_dict(_, _, _)

\* A decoder of tag types that raises ParseError whatever kind of error
\* its caller gave it.
TagType_from_dict_generic(raw, exception) ==
    LET id   == get_value_or_error(raw, "id", "tag type input", "ParseError")
        name == get_value_or_error(raw, "name", "tag type input",
                                   "ParseError")
    IN  Construct(<<id, name>>,
                  [t |-> "TagType", id |-> id.val, name |-> name.val])

TagType_from_dict(raw, exception) ==
    LET id   == get_value_or_error(raw, "id", "tag type input", exception)
        name == get_value_or_error(raw, "name", "tag type input", exception)
    IN  Construct(<<id, name>>,
                  [t |-> "TagType", id |-> id.val, name |-> name.val])

Driver_from_dict(raw, exception) ==
    LET id       == get_value_or_error(raw, "id", "driver input", exception)
        name     == get_value_or_error(raw, "name", "driver input", exception)
        protocol == Get(raw, "protocol")
    IN  Construct(<<id, name, protocol>>,
                  [t |-> "Driver", id |-> id.val, name |-> name.val,
                   protocol |-> protocol.val])

\* children[tag.name] = tag needs a hashable name.
Hashable(v) == v.t \notin {"list", "obj"}

\* The dict a loop of children[tag.id] = tag would leave.
ChildrenById(tags) ==
    LET ids == {tags[i].id : i \in 1..Len(tags)}
        last(n) == CHOOSE i \in 1..Len(tags) :
                       /\ tags[i].id = n
                       /\ \A j \in 1..Len(tags) : tags[j].id = n => j <= i
    IN  [n \in ids |-> tags[last(n)]]

\* The dict a loop that never overwrites a name would leave: under each
\* name the first tag of that name.
ChildrenFirst(tags) ==
    LET names == {tags[i].name : i \in 1..Len(tags)}
        first(n) == CHOOSE i \in 1..Len(tags) :
                        /\ tags[i].name = n
                        /\ \A j \in 1..Len(tags) : tags[j].name = n => i <= j
    IN  [n \in names |-> tags[first(n)]]

\* The dict a loop of children[tag.name] = tag leaves: under each name the
\* last tag of that name.
ChildrenDict(tags) ==
    LET names == {tags[i].name : i \in 1..Len(tags)}
        last(n) == CHOOSE i \in 1..Len(tags) :
                       /\ tags[i].name = n
                       /\ \A j \in 1..Len(tags) : tags[j].name = n => j <= i
    IN  [n \in names |-> tags[last(n)]]

\* children[tag.name] = tag
Stored(tag) ==
    IF ~tag.ok \/ Hashable(tag.val.name) THEN tag
    ELSE Raise("TypeError", JStr("unhashable type"))

Tag_from_dict(raw, exception) ==
    LET value == get_collection_value(raw, "children", EmptyList)
        items == IF value.ok THEN Iter(value.val) ELSE value
        loop  == IF ~items.ok THEN items
                 ELSE Comprehension(
                          [i \in 1..Len(items.val) |->
                              Stored(from_dict("Tag", items.val[i], exception))])
        id   == get_value_or_error(raw, "id", "tag input", exception)
        name == get_value_or_error(raw, "name", "tag input", exception)
        rawType == get_value_or_error(raw, "type", "tag input", exception)
        type == IF rawType.ok THEN from_dict("TagType", rawType.val, exception)
                ELSE rawType
        properties ==
            get_value_or_error(raw, "properties", "tag input", exception)
        attrs == get_collection_value(raw, "attrs", EmptyObj)
        driver_config == get_collection_value(raw, "driver_config", EmptyObj)
    IN  Construct(<<loop, id, name, type, properties, attrs, driver_config>>,
                  [t |-> "Tag", id |-> id.val, name |-> name.val,
                   type |-> type.val, properties |-> properties.val,
                   attrs |-> attrs.val, children |-> ChildrenDict(loop.val),
                   driver_config |-> driver_config.val])

Device_from_dict(raw, exception) ==
    LET id   == get_value_or_error(raw, "id", "device input", exception)
        name == get_value_or_error(raw, "name", "device input", exception)
        rawTag == get_value_or_error(raw, "tag", "device input", exception)
        tag  == IF rawTag.ok THEN from_dict("Tag", rawTag.val, exception)
                ELSE rawTag
        driver_config == get_collection_value(raw, "driver_config", EmptyObj)
        rawDriver ==
            get_value_or_error(raw, "driver", "device input", exception)
        driver == IF rawDriver.ok
                  THEN from_dict("Driver", rawDriver.val, exception)
                  ELSE rawDriver
        config_id == Get(raw, "config_id")
    IN  Construct(<<id, name, tag, driver_config, driver, config_id>>,
                  [t |-> "Device", id |-> id.val, name |-> name.val,
                   driver |-> driver.val, tag |-> tag.val,
                   driver_config |-> driver_config.val,
                   config_id |-> config_id.val])

Agent_from_dict(raw, exception) ==
    LET id        == get_value_or_error(raw, "id", "agent input", exception)
        config_id == Get(raw, "config_id")
        name      == get_value_or_error(raw, "name", "agent input", exception)
        rawTag == get_value_or_error(raw, "tag", "agent input", exception)
        tag == IF rawTag.ok THEN from_dict("Tag", rawTag.val, exception)
               ELSE rawTag
        rawDevices ==
            get_value_or_error(raw, "devices", "agent input", exception)
        items == IF rawDevices.ok THEN Iter(rawDevices.val) ELSE rawDevices
        devices ==
            IF ~items.ok THEN items
            ELSE Comprehension([i \in 1..Len(items.val) |->
                                   from_dict("Device", items.val[i], exception)])
    IN  Construct(<<id, config_id, name, tag, devices>>,
                  [t |-> "Agent", id |-> id.val, name |-> name.val,
                   tag |-> tag.val, devices |-> devices.val,
                   config_id |-> config_id.val])

\* class CommandStatus(enum.Enum): the members, each <<name, value>>.
CommandStatusMembers ==
    << <<"new", "new">>, <<"sending", "sending">>, <<"sent", "sent">>,
       <<"received", "received">>, <<"skipped", "skipped">>,
       <<"done", "done">>, <<"failed", "failed">> >>

CommandStatus(name) == [t |-> "CommandStatus", name |-> name]

\* member.value
StatusValue(member) ==
    LET i == CHOOSE i \in 1..Len(CommandStatusMembers) :
                 CommandStatusMembers[i][1] = member.name
    IN  CommandStatusMembers[i][2]

\* The text an f-string shows for a value.
Shown(value) ==
    CASE value.t = "str" /\ "s" \in DOMAIN value -> value.s
      [] value.t = "null" -> "None"
      [] value.t = "bool" -> IF value.b THEN "True" ELSE "False"
      [] OTHER            -> "<" \o value.t \o ">"

\* from_string had it fallen back to the first member for an unknown
\* value.
CommandStatus_from_string_or_new(value, exception) ==
    LET hits == {i \in 1..Len(CommandStatusMembers) :
                     value = JStr(CommandStatusMembers[i][2])}
    IN  IF hits # {}
        THEN Ok(CommandStatus(CommandStatusMembers[CHOOSE i \in hits : TRUE][1]))
        ELSE Ok(CommandStatus(CommandStatusMembers[1][1]))

\* CommandStatus.from_string: CommandStatus(value) finds the member of
\* that value or raises ValueError, which is raised on as exception.
CommandStatus_from_string(value, exception) ==
    LET hits == {i \in 1..Len(CommandStatusMembers) :
                     value = JStr(CommandStatusMembers[i][2])}
    IN  IF hits # {}
        THEN Ok(CommandStatus(CommandStatusMembers[CHOOSE i \in hits : TRUE][1]))
        ELSE Raise(exception, JStr("parse command_status failed, value '"
                                       \o Shown(value) \o "' is unknown"))

\* The exception classes, each with its base class.
BaseClass ==
    [APIError |-> "Exception", ParseError |-> "APIError",
     ImproperlyConfigurationError |-> "ParseError",
     ImproperlyCommandFormatError |-> "ParseError",
     HTTPError |-> "APIError", BadParamsError |-> "HTTPError",
     UnauthorizedError |-> "HTTPError", NotFoundError |-> "HTTPError",
     InternalServerError |-> "HTTPError", MQTTError |-> "APIError",
     SubscriptionError |-> "MQTTError"]

RECURSIVE IsSubclass(_, _)
IsSubclass(kind, base) ==
    \/ kind = base
    \/ kind \in DOMAIN BaseClass /\ IsSubclass(BaseClass[kind], base)

\* class LogLevel(enum.IntEnum): the members, each <<name, value>>.
LogLevelMembers ==
    << <<"debug", 1>>, <<"info", 2>>, <<"warn", 3>>, <<"error", 4>>,
       <<"fatal", 5>> >>

LogLevel(name) == [t |-> "LogLevel", name |-> name]

LevelValue(member) ==
    LET i == CHOOSE i \in 1..Len(LogLevelMembers) :
                 LogLevelMembers[i][1] = member.name
    IN  LogLevelMembers[i][2]

LogRecord_to_dict(self) ==
    JObj([level |-> JInt(LevelValue(self.level)), message |-> self.message])

Location_to_dict(self) == JObj([lat |-> self.lat, lng |-> self.lng])

EventTag_to_dict(self) ==
    LET value == IF self.value.t = "Location"
                 THEN Ok(Location_to_dict(self.value))
                 ELSE IF self.value.t = "datetime"
                 THEN dt_to_ts(self.value)
                 ELSE Ok(self.value)
        timestamp == dt_to_ts(self.timestamp)
    IN  Construct(<<value, timestamp>>,
                  JObj([id |-> self.id, value |-> value.val,
                        timestamp |-> timestamp.val]))

EventMessage_to_dict(self) ==
    LET tags == [i \in 1..Len(self.tags) |-> EventTag_to_dict(self.tags[i])]
    IN  Construct(tags, JObj([tags |-> JList(Vals(tags))]))

\***************************************************************************
\* The json library: a str that is a JSON document is [t |-> "str",
\* doc |-> the value it denotes]; any other str is [t |-> "str", s |-> ...].
\***************************************************************************

Document(v) == [t |-> "str", doc |-> v]

\* What json.dumps can write: JSON values only.
RECURSIVE Serializable(_)
Serializable(v) ==
    CASE v.t \in {"null", "bool", "int"} -> TRUE
      [] v.t = "str"  -> "s" \in DOMAIN v
      [] v.t = "list" -> \A i \in 1..Len(v.l) : Serializable(v.l[i])
      [] v.t = "obj"  -> \A k \in DOMAIN v.o : Serializable(v.o[k])
      [] OTHER        -> FALSE

json_dumps(v) ==
    IF Serializable(v) THEN Ok(Document(v))
    ELSE Raise("TypeError", JStr("Object is not JSON serializable"))

json_loads(raw) ==
    IF raw.t = "str" /\ "doc" \in DOMAIN raw THEN Ok(raw.doc)
    ELSE Raise("JSONDecodeError", JStr("Expecting value"))

EventMessage_dumps(self) ==
    LET dict == EventMessage_to_dict(self)
    IN  IF dict.ok THEN json_dumps(dict.val) ELSE dict

\***************************************************************************
\* coiiot_client/http.py
\***************************************************************************

Config_from_dict(raw, exception) ==
    LET agent   == get_value_or_error(raw, "agent", "config input", exception)
        version == get_value_or_error(raw, "version", "config input", exception)
        decoded == IF agent.ok THEN from_dict("Agent", agent.val, exception)
                   ELSE agent
    IN  Construct(<<agent, version, decoded>>,
                  [t |-> "Config", agent |-> decoded.val,
                   version |-> version.val])

Config_loads(raw, exception) ==
    LET v == json_loads(raw)
    IN  IF v.ok THEN from_dict("Config", v.val, exception) ELSE v

http_CommandTag_from_dict(raw, exception) ==
    LET id == get_value_or_error(raw, "tag_id", "command tag input", exception)
        value == get_value_or_error(raw, "value", "command tag input", exception)
    IN  Construct(<<id, value>>,
                  [t |-> "CommandTag", id |-> id.val, value |-> value.val])

CommandExtended_from_dict(raw, exception) ==
    LET name == "command extended input"
        cmd_id     == get_value_or_error(raw, "id", name, exception)
        tags       == get_value_or_error(raw, "tags", name, exception)
        created_at == get_value_or_error(raw, "created_at", name, exception)
        updated_at == get_value_or_error(raw, "updated_at", name, exception)
        status     == get_value_or_error(raw, "status", name, exception)
        items   == IF tags.ok THEN Iter(tags.val) ELSE tags
        tagList ==
            IF ~items.ok THEN items
            ELSE Comprehension(
                     [i \in 1..Len(items.val) |->
                         from_dict("HttpCommandTag", items.val[i], exception)])
        created == IF created_at.ok THEN dt_from_ts(created_at.val)
                   ELSE created_at
        updated == IF updated_at.ok THEN dt_from_ts(updated_at.val)
                   ELSE updated_at
        decoded == IF status.ok
                   THEN CommandStatus_from_string(status.val, exception)
                   ELSE status
        reason  == Get(raw, "reason")
    IN  Construct(<<cmd_id, tags, created_at, updated_at, status,
                    tagList, created, updated, decoded, reason>>,
                  [t |-> "CommandExtended", id |-> cmd_id.val,
                   tags |-> tagList.val, created_at |-> created.val,
                   updated_at |-> updated.val, status |-> decoded.val,
                   reason |-> reason.val])

http_DeviceCommand_from_dict(raw, exception) ==
    LET name == "device_command input"
        device_id == get_value_or_error(raw, "device_id", name, exception)
        cmd       == get_value_or_error(raw, "command", name, exception)
        command   == IF cmd.ok THEN from_dict("CommandExtended", cmd.val, exception)
                     ELSE cmd
    IN  Construct(<<device_id, cmd, command>>,
                  [t |-> "DeviceCommand", device_id |-> device_id.val,
                   command |-> command.val])

AgentDevicesCommands_from_dict(raw, exception) ==
    LET got == Get(raw, "command")
        cmd == IF got.ok /\ ~IsNone(got.val)
               THEN from_dict("CommandExtended", got.val, exception)
               ELSE got
        devices == get_value_or_error(raw, "devices",
                                      "agent_devices_commands input", exception)
        items   == IF devices.ok THEN Iter(devices.val) ELSE devices
        devList ==
            IF ~items.ok THEN items
            ELSE Comprehension(
                     [i \in 1..Len(items.val) |->
                         from_dict("HttpDeviceCommand", items.val[i], exception)])
    IN  Construct(<<cmd, devices, devList>>,
                  [t |-> "AgentDevicesCommands", command |-> cmd.val,
                   devices |-> devList.val])

AgentDevicesCommands_loads(raw, exception) ==
    LET v == json_loads(raw)
    IN  IF v.ok THEN from_dict("AgentDevicesCommands", v.val, exception) ELSE v

VersionedDeviceConfig_from_dict(raw, exception) ==
    LET name == "versioned_device_config input"
        id_        == get_value_or_error(raw, "id", name, exception)
        device_id  == get_value_or_error(raw, "device_id", name, exception)
        got        == Get(raw, "created_at")
        created_at == IF got.ok /\ ~IsNone(got.val) THEN dt_from_ts(got.val)
                      ELSE got
        device_config == get_collection_value(raw, "device_config", EmptyObj)
    IN  Construct(<<id_, device_id, created_at, device_config>>,
                  [t |-> "VersionedDeviceConfig", id |-> id_.val,
                   device_id |-> device_id.val, created_at |-> created_at.val,
                   device_config |-> device_config.val])

VersionedDeviceConfig_loads(raw, exception) ==
    LET v == json_loads(raw)
    IN  IF v.ok THEN from_dict("VersionedDeviceConfig", v.val, exception) ELSE v

\* http.CommandStatusMessage(status, timestamp = None, reason = None)
http_CommandStatusMessage(status, timestamp, reason) ==
    [t |-> "http.CommandStatusMessage", status |-> status,
     timestamp |-> timestamp, reason |-> reason]

\* An encoding that sends a reason only with the status failed.
http_CommandStatusMessage_to_dict_by_convention(self) ==
    LET timestamp == IF ~IsNone(self.timestamp) THEN dt_to_ts(self.timestamp)
                     ELSE Ok(None)
    IN  Construct(<<timestamp>>,
                  JObj([status |-> JStr(StatusValue(self.status)),
                        reason |-> IF self.status = CommandStatus("failed")
                                   THEN self.reason ELSE None,
                        timestamp |-> timestamp.val]))

http_CommandStatusMessage_to_dict(self) ==
    LET timestamp == IF ~IsNone(self.timestamp) THEN dt_to_ts(self.timestamp)
                     ELSE Ok(None)
    IN  Construct(<<timestamp>>,
                  JObj([status |-> JStr(StatusValue(self.status)),
                        reason |-> self.reason,
                        timestamp |-> timestamp.val]))

\***************************************************************************
\* coiiot_client/mqtt.py
\***************************************************************************

mqtt_CommandTag_from_dict(raw, exception) ==
    LET id == get_value_or_error(raw, "id", "command tag input", exception)
        value == get_value_or_error(raw, "value", "command tag input", exception)
    IN  Construct(<<id, value>>,
                  [t |-> "CommandTag", id |-> id.val, value |-> value.val])

Command_from_dict(raw, exception) ==
    LET cmd_id    == get_value_or_error(raw, "id", "command input", exception)
        tags      == get_value_or_error(raw, "tags", "command input", exception)
        timestamp ==
            get_value_or_error(raw, "timestamp", "command input", exception)
        items   == IF tags.ok THEN Iter(tags.val) ELSE tags
        tagList ==
            IF ~items.ok THEN items
            ELSE Comprehension(
                     [i \in 1..Len(items.val) |->
                         from_dict("MqttCommandTag", items.val[i], exception)])
        decoded == IF timestamp.ok THEN dt_from_ts(timestamp.val)
                   ELSE timestamp
    IN  Construct(<<cmd_id, tags, timestamp, tagList, decoded>>,
                  [t |-> "Command", id |-> cmd_id.val, tags |-> tagList.val,
                   timestamp |-> decoded.val])

mqtt_DeviceCommand_from_dict(raw, exception) ==
    LET name == "device_command input"
        device_id == get_value_or_error(raw, "device_id", name, exception)
        cmd       == get_value_or_error(raw, "command", name, exception)
        command   == IF cmd.ok THEN from_dict("Command", cmd.val, exception)
                     ELSE cmd
    IN  Construct(<<device_id, cmd, command>>,
                  [t |-> "DeviceCommand", device_id |-> device_id.val,
                   command |-> command.val])

CommandMessage_from_dict(raw, exception) ==
    LET got == Get(raw, "command")
        cmd == IF got.ok /\ ~IsNone(got.val)
               THEN from_dict("Command", got.val, exception)
               ELSE got
        devices == get_value_or_error(raw, "devices", "command message input",
                                      exception)
        items   == IF devices.ok THEN Iter(devices.val) ELSE devices
        devList ==
            IF ~items.ok THEN items
            ELSE Comprehension(
                     [i \in 1..Len(items.val) |->
                         from_dict("MqttDeviceCommand", items.val[i], exception)])
    IN  Construct(<<cmd, devices, devList>>,
                  [t |-> "CommandMessage", command |-> cmd.val,
                   devices |-> devList.val])

CommandMessage_loads(raw, exception) ==
    LET v == json_loads(raw)
    IN  IF v.ok THEN from_dict("CommandMessage", v.val, exception) ELSE v

\* mqtt.CommandStatusMessage(id, status, timestamp, reason = None)
mqtt_CommandStatusMessage(id, status, timestamp, reason) ==
    [t |-> "mqtt.CommandStatusMessage", id |-> id, status |-> status,
     timestamp |-> timestamp, reason |-> reason]

mqtt_CommandStatusMessage_to_dict(self) ==
    LET timestamp == dt_to_ts(self.timestamp)
    IN  Construct(<<timestamp>>,
                  JObj([id |-> self.id,
                        status |-> JStr(StatusValue(self.status)),
                        reason |-> self.reason,
                        timestamp |-> timestamp.val]))

mqtt_CommandStatusMessage_dumps(self) ==
    LET dict == mqtt_CommandStatusMessage_to_dict(self)
    IN  IF dict.ok THEN json_dumps(dict.val) ELSE dict

\* The from_dict of a structure.
from_dict(st, raw, exception) ==
    CASE st = "Config"          -> Config_from_dict(raw, exception)
      [] st = "Agent"           -> Agent_from_dict(raw, exception)
      [] st = "Device"          -> Device_from_dict(raw, exception)
      [] st = "Driver"          -> Driver_from_dict(raw, exception)
      [] st = "Tag"             -> Tag_from_dict(raw, exception)
      [] st = "TagType"         -> TagType_from_dict(raw, exception)
      [] st = "HttpCommandTag"  -> http_CommandTag_from_dict(raw, exception)
      [] st = "CommandExtended" -> CommandExtended_from_dict(raw, exception)
      [] st = "HttpDeviceCommand" ->
           http_DeviceCommand_from_dict(raw, exception)
      [] st = "AgentDevicesCommands" ->
           AgentDevicesCommands_from_dict(raw, exception)
      [] st = "VersionedDeviceConfig" ->
           VersionedDeviceConfig_from_dict(raw, exception)
      [] st = "MqttCommandTag"  -> mqtt_CommandTag_from_dict(raw, exception)
      [] st = "Command"         -> Command_from_dict(raw, exception)
      [] st = "MqttDeviceCommand" ->
           mqtt_DeviceCommand_from_dict(raw, exception)
      [] st = "CommandMessage"  -> CommandMessage_from_dict(raw, exception)


\***************************************************************************
\* The payloads the server and the broker may send, within bounds.
\***************************************************************************

\* The most children a tag of a payload has, the deepest a tag nests, the
\* most devices of a config or of a commands payload, and the most tags of
\* a command.
MaxChildren == 2

MaxDepth == 2

MaxDevices == 2

MaxTags == 2

ChildNames == <<"a", "b", "c", "d">>

RawTagType == JObj([id |-> JInt(1), name |-> JStr("t")])

RawTag(id, name, children) ==
    JObj([id |-> JInt(id), name |-> JStr(name), type |-> RawTagType,
          properties |-> EmptyObj, attrs |-> JObj([unit |-> JStr("C")]),
          children |-> JList(children)])

\* A tag without the optional keys.
RawLeaf(id, name) ==
    JObj([id |-> JInt(id), name |-> JStr(name), type |-> RawTagType,
          properties |-> JObj([k |-> JInt(0)])])

\* A tag tree of the given depth: every tag that nests has width
\* children and its first child nests on.  With same, the children of a
\* tag all carry the name of the first.
RECURSIVE RawTree(_, _, _, _)
RawTree(id, name, depth, shape) ==
    IF depth = 0 THEN RawLeaf(id, name)
    ELSE RawTag(id, name,
                [i \in 1..shape.width |->
                    RawTree(10 * id + i,
                            ChildNames[IF shape.same THEN 1 ELSE i],
                            IF i = 1 THEN depth - 1 ELSE 0, shape)])

Shapes == [width : 1..MaxChildren, same : BOOLEAN]

RawTrees ==
    {RawLeaf(1, "root")}
        \cup {RawTree(1, "root", d, sh) : d \in 1..MaxDepth, sh \in Shapes}

RawDriver == JObj([id |-> JInt(1), name |-> JStr("modbus driver"),
                   protocol |-> JStr("modbus")])

RawDevice(id, tag) ==
    JObj([id |-> JInt(id), name |-> JStr("device"), driver |-> RawDriver,
          tag |-> tag, driver_config |-> JObj([key |-> JStr("value")]),
          config_id |-> JInt(1)])

RawConfig(tag, devices) ==
    JObj([version |-> JStr("v1"),
          agent |-> JObj([id |-> JInt(1), name |-> JStr("agent"),
                          config_id |-> JInt(1), tag |-> tag,
                          devices |-> JList(devices)])])

\* The well-formed config payloads.
RawConfigs ==
    {RawConfig(tag, [i \in 1..n |-> RawDevice(i, tag)]) :
        tag \in RawTrees, n \in 0..MaxDevices}

\* Microsecond timestamps of the wire: 2020-01-01T00:00:00 and an instant
\* of 1974 with a microsecond part.
WireTimestamps == {JBig(1577826000, 0), JBig(139289869, 646354)}

StatusTokens == {CommandStatusMembers[i][2] : i \in 1..Len(CommandStatusMembers)}

RawHttpCommand(id, ntags, ts, status, reason) ==
    JObj([id |-> JStr(id),
          tags |-> JList([i \in 1..ntags |->
                             JObj([tag_id |-> JInt(i), value |-> JBool(i = 1)])]),
          created_at |-> ts, updated_at |-> JBig(1577826000, 1),
          status |-> JStr(status), reason |-> reason])

\* The well-formed commands of a get_commands payload: every status, and
\* for one status every number of tags, timestamp and reason.
RawHttpCommands ==
    {RawHttpCommand("some-id", MaxTags, JBig(1577826000, 0), st, None) :
        st \in StatusTokens}
        \cup {RawHttpCommand("some-id", n, ts, "failed", r) :
                 n \in 0..MaxTags, ts \in WireTimestamps,
                 r \in {None, JStr("why")}}

\* cmd under another id
WithId(cmd, id) == JObj([k \in DOMAIN cmd.o |-> IF k = "id" THEN JStr(id)
                                                 ELSE cmd.o[k]])

\* obj with value under key, and obj without key
With(obj, key, value) ==
    JObj([k \in DOMAIN obj.o \cup {key} |-> IF k = key THEN value
                                            ELSE obj.o[k]])

Without(obj, key) == JObj([k \in DOMAIN obj.o \ {key} |-> obj.o[k]])

RawDeviceList(cmd, n) ==
    JList([i \in 1..n |->
              JObj([device_id |-> JInt(i),
                    command |-> WithId(cmd, "cmd-" \o ChildNames[i])])])

\* The well-formed payloads of get_commands and of the inbound topic: the
\* agent-level command is absent, null or there, before any number of
\* device commands.
RawCommandPayloads(cmds) ==
    UNION {{JObj([devices |-> RawDeviceList(cmd, n)]),
            JObj([command |-> None, devices |-> RawDeviceList(cmd, n)]),
            JObj([command |-> cmd, devices |-> RawDeviceList(cmd, n)])} :
           cmd \in cmds, n \in 0..MaxDevices}

RawHttpPayloads == RawCommandPayloads(RawHttpCommands)

RawMqttCommand(id, ntags, ts) ==
    JObj([id |-> JStr(id),
          tags |-> JList([i \in 1..ntags |->
                             JObj([id |-> JInt(i), value |-> JBool(i = 1)])]),
          timestamp |-> ts])

RawMqttCommands ==
    {RawMqttCommand("some_command", n, ts) :
        n \in 0..MaxTags, ts \in WireTimestamps}

RawMqttPayloads == RawCommandPayloads(RawMqttCommands)

RawVersionedConfigs ==
    {JObj([id |-> JInt(1), device_id |-> JInt(1)]),
     JObj([id |-> JInt(1), device_id |-> JInt(1),
           created_at |-> JBig(1577826000, 0),
           device_config |-> JObj([key |-> JStr("value")])])}

\***************************************************************************
\* The structures of the data model, as the specification gives them:
\* each key with whether it is required and what it holds (a scalar, a
\* status token, an opaque map, a structure or a list of structures).
\***************************************************************************

Req(key, kind, of) == [key |-> key, req |-> TRUE, kind |-> kind, of |-> of]

Opt(key, kind, of) == [key |-> key, req |-> FALSE, kind |-> kind, of |-> of]

Schema ==
    [Config |->
        [name |-> "config input",
         fields |-> {Req("agent", "struct", "Agent"),
                     Req("version", "scalar", "")}],
     Agent |->
        [name |-> "agent input",
         fields |-> {Req("id", "scalar", ""), Req("name", "scalar", ""),
                     Req("tag", "struct", "Tag"),
                     Req("devices", "list", "Device"),
                     Opt("config_id", "scalar", "")}],
     Device |->
        [name |-> "device input",
         fields |-> {Req("id", "scalar", ""), Req("name", "scalar", ""),
                     Req("tag", "struct", "Tag"),
                     Req("driver", "struct", "Driver"),
                     Opt("driver_config", "map", ""),
                     Opt("config_id", "scalar", "")}],
     Driver |->
        [name |-> "driver input",
         fields |-> {Req("id", "scalar", ""), Req("name", "scalar", ""),
                     Opt("protocol", "scalar", "")}],
     Tag |->
        [name |-> "tag input",
         fields |-> {Req("id", "scalar", ""), Req("name", "scalar", ""),
                     Req("type", "struct", "TagType"),
                     Req("properties", "map", ""), Opt("attrs", "map", ""),
                     Opt("children", "list", "Tag"),
                     Opt("driver_config", "map", "")}],
     TagType |->
        [name |-> "tag type input",
         fields |-> {Req("id", "scalar", ""), Req("name", "scalar", "")}],
     HttpCommandTag |->
        [name |-> "command tag input",
         fields |-> {Req("tag_id", "scalar", ""), Req("value", "scalar", "")}],
     CommandExtended |->
        [name |-> "command extended input",
         fields |-> {Req("id", "scalar", ""),
                     Req("tags", "list", "HttpCommandTag"),
                     Req("created_at", "scalar", ""),
                     Req("updated_at", "scalar", ""),
                     Req("status", "enum", ""), Opt("reason", "scalar", "")}],
     HttpDeviceCommand |->
        [name |-> "device_command input",
         fields |-> {Req("device_id", "scalar", ""),
                     Req("command", "struct", "CommandExtended")}],
     AgentDevicesCommands |->
        [name |-> "agent_devices_commands input",
         fields |-> {Opt("command", "struct", "CommandExtended"),
                     Req("devices", "list", "HttpDeviceCommand")}],
     VersionedDeviceConfig |->
        [name |-> "versioned_device_config input",
         fields |-> {Req("id", "scalar", ""), Req("device_id", "scalar", ""),
                     Opt("created_at", "scalar", ""),
                     Opt("device_config", "map", "")}],
     MqttCommandTag |->
        [name |-> "command tag input",
         fields |-> {Req("id", "scalar", ""), Req("value", "scalar", "")}],
     Command |->
        [name |-> "command input",
         fields |-> {Req("id", "scalar", ""),
                     Req("tags", "list", "MqttCommandTag"),
                     Req("timestamp", "scalar", "")}],
     MqttDeviceCommand |->
        [name |-> "device_command input",
         fields |-> {Req("device_id", "scalar", ""),
                     Req("command", "struct", "Command")}],
     CommandMessage |->
        [name |-> "command message input",
         fields |-> {Opt("command", "struct", "Command"),
                     Req("devices", "list", "MqttDeviceCommand")}]]

Structures == DOMAIN Schema

\* The key is absent from the map or null in it.
Lacks(v, key) == key \notin DOMAIN v.o \/ v.o[key] = None

\* The structures below the field f of v: one for a structure, the items
\* for a list.
Nested(v, f) ==
    IF Lacks(v, f.key) THEN <<>>
    ELSE IF f.kind = "struct" THEN <<v.o[f.key]>>
    ELSE IF f.kind = "list" THEN v.o[f.key].l
    ELSE <<>>

\* The messages of the required keys that v, a map meant as structure st,
\* lacks at any depth.
RECURSIVE MissingKeys(_, _)
MissingKeys(st, v) ==
    {KeyMissing(f.key, Schema[st].name) :
        f \in {g \in Schema[st].fields : g.req /\ Lacks(v, g.key)}}
    \cup UNION {UNION {MissingKeys(f.of, Nested(v, f)[i]) :
                          i \in 1..Len(Nested(v, f))} :
                   f \in Schema[st].fields}

\* The paths to the keys of v and of the structures within it: a path
\* names a key, then an item and a key of it, and so on.
RECURSIVE SchemaPaths(_, _)
SchemaPaths(st, v) ==
    UNION {{<<[k |-> f.key]>>}
               \cup UNION {{<<[k |-> f.key], [i |-> i]>> \o p :
                               p \in SchemaPaths(f.of, Nested(v, f)[i])} :
                           i \in 1..Len(Nested(v, f))} :
           f \in Schema[st].fields}

FieldOf(st, key) == CHOOSE f \in Schema[st].fields : f.key = key

\* The field a path ends at.
RECURSIVE LastField(_, _)
LastField(st, path) ==
    IF Len(path) = 1 THEN FieldOf(st, path[1].k)
    ELSE LastField(FieldOf(st, path[1].k).of, SubSeq(path, 3, Len(path)))

\* The kind of value that is empty, zero or false for a field.
Falsy(f, v) ==
    CASE f.kind \in {"map", "struct"} -> EmptyObj
      [] f.kind = "list" -> EmptyList
      [] OTHER ->
           IF Lacks(v, f.key) THEN JInt(0)
           ELSE CASE v.o[f.key].t = "str"  -> JStr("")
                  [] v.o[f.key].t = "bool" -> JBool(FALSE)
                  [] OTHER                 -> JInt(0)

DefectKinds == {"absent", "null", "falsy"}

\* v with the key at the end of path removed, made null or made falsy.
RECURSIVE ApplyDefect(_, _, _, _)
ApplyDefect(st, v, path, kind) ==
    LET f == FieldOf(st, path[1].k)
    IN  IF Len(path) = 1
        THEN CASE kind = "absent" -> Without(v, f.key)
               [] kind = "null"   -> With(v, f.key, None)
               [] OTHER           -> With(v, f.key, Falsy(f, v))
        ELSE LET sub == ApplyDefect(f.of, Nested(v, f)[path[2].i],
                                    SubSeq(path, 3, Len(path)), kind)
             IN  IF f.kind = "struct" THEN With(v, f.key, sub)
                 ELSE With(v, f.key,
                           JList([j \in 1..Len(v.o[f.key].l) |->
                                     IF j = path[2].i THEN sub
                                     ELSE v.o[f.key].l[j]]))

\* The defects of a payload: one key, at any depth, removed, made null or
\* made falsy (a status token has no falsy value).
Defects(st, v) ==
    {[path |-> p, kind |-> k] :
        p \in SchemaPaths(st, v),
        k \in DefectKinds} \ 
    {d \in [path : SchemaPaths(st, v), kind : {"falsy"}] :
        LastField(st, d.path).kind = "enum"}

Defective(st, v) == {ApplyDefect(st, v, d.path, d.kind) : d \in Defects(st, v)}

\* The names under which the decoders are called.
ParseKinds ==
    {"ParseError", "ImproperlyConfigurationError",
     "ImproperlyCommandFormatError"}

\* The payloads given to the decoder of each structure: the well-formed
\* ones, and the defects of the largest of them.
FullShape == [width |-> MaxChildren, same |-> FALSE]

BigTree == RawTree(1, "root", MaxDepth, FullShape)

SmallTree == RawTree(1, "root", 1, [width |-> 1, same |-> FALSE])

BigConfig == RawConfig(BigTree, <<RawDevice(1, SmallTree)>>)

BigHttpCommand ==
    RawHttpCommand("some-id", MaxTags, JBig(1577826000, 0), "new", JStr("why"))

BigHttpPayload ==
    JObj([command |-> BigHttpCommand,
          devices |-> RawDeviceList(BigHttpCommand, MaxDevices)])

BigMqttCommand == RawMqttCommand("some_command", MaxTags, JBig(1577826000, 0))

BigMqttPayload ==
    JObj([command |-> BigMqttCommand,
          devices |-> RawDeviceList(BigMqttCommand, MaxDevices)])

BigVersionedConfig ==
    JObj([id |-> JInt(1), device_id |-> JInt(1),
          created_at |-> JBig(1577826000, 0),
          device_config |-> JObj([key |-> JStr("value")])])

Bases(st) ==
    CASE st = "Config"                -> RawConfigs
      [] st = "Agent"                 -> {RawConfig(SmallTree, <<>>).o.agent}
      [] st = "Device"                -> {RawDevice(1, SmallTree)}
      [] st = "Driver"                -> {RawDriver}
      [] st = "Tag"                   -> RawTrees
      [] st = "TagType"               -> {RawTagType}
      [] st = "HttpCommandTag"        -> {BigHttpCommand.o.tags.l[1]}
      [] st = "CommandExtended"       -> RawHttpCommands
      [] st = "HttpDeviceCommand"     -> {BigHttpPayload.o.devices.l[1]}
      [] st = "AgentDevicesCommands"  -> RawHttpPayloads
      [] st = "VersionedDeviceConfig" -> RawVersionedConfigs
      [] st = "MqttCommandTag"        -> {BigMqttCommand.o.tags.l[1]}
      [] st = "Command"               -> RawMqttCommands
      [] st = "MqttDeviceCommand"     -> {BigMqttPayload.o.devices.l[1]}
      [] st = "CommandMessage"        -> RawMqttPayloads

Biggest(st) ==
    CASE st = "Config"                -> BigConfig
      [] st = "Agent"                 -> BigConfig.o.agent
      [] st = "Device"                -> RawDevice(1, SmallTree)
      [] st = "Driver"                -> RawDriver
      [] st = "Tag"                   -> SmallTree
      [] st = "TagType"               -> RawTagType
      [] st = "HttpCommandTag"        -> BigHttpCommand.o.tags.l[1]
      [] st = "CommandExtended"       -> BigHttpCommand
      [] st = "HttpDeviceCommand"     -> BigHttpPayload.o.devices.l[1]
      [] st = "AgentDevicesCommands"  -> BigHttpPayload
      [] st = "VersionedDeviceConfig" -> BigVersionedConfig
      [] st = "MqttCommandTag"        -> BigMqttCommand.o.tags.l[1]
      [] st = "Command"               -> BigMqttCommand
      [] st = "MqttDeviceCommand"     -> BigMqttPayload.o.devices.l[1]
      [] st = "CommandMessage"        -> BigMqttPayload

Payloads(st) == Bases(st) \cup Defective(st, Biggest(st))

\***************************************************************************
\* The state
\***************************************************************************

VARIABLES
    call,           \* the codec function applied last, with its arguments
    ret,            \* what it returned or raised
    http_pc,        \* "idle", or "awaiting" the response to a request
    http_op,        \* the operation of http.Client called last
    http_sent,      \* the requests that call has sent
    http_sessions,  \* the ClientSessions that are open
    http_response,  \* the status and the body text received
    http_decoded,   \* the texts that call has handed to a decoder
    http_result,    \* what the call returned or raised
    mqtt_conn,      \* "disconnected" or "connected": the broker connection
    mqtt_run,       \* where run() is: "none", "connecting", "subscribing",
                    \* "returned" or "raised"
    mqtt_calls,     \* what run() has asked of the hbmqtt client, in order
    mqtt_ack,       \* the return code of the broker's SUBACK, once received
    mqtt_run_result,\* what run() returned or raised
    mqtt_op,        \* the outbound operation of mqtt.Client called last
    mqtt_published, \* the messages that call has published
    mqtt_op_result, \* what the call returned or raised
    mqtt_inbox,     \* the messages delivered and not yet taken
    mqtt_delivered, \* how many messages the broker has delivered
    mqtt_arrived,   \* the messages the broker has delivered, in order
    mqtt_gen,       \* the generator of incoming_commands(): "none",
                    \* "open" or "ended"
    mqtt_taken,     \* the messages the generator has taken, in order
    mqtt_yielded,   \* the values the generator has yielded, in order
    mqtt_raised     \* what the generator raised, once it has

codecVars == <<call, ret>>

httpVars ==
    <<http_pc, http_op, http_sent, http_sessions, http_response,
      http_decoded, http_result>>

mqttVars ==
    <<mqtt_conn, mqtt_run, mqtt_calls, mqtt_ack, mqtt_run_result, mqtt_op,
      mqtt_published, mqtt_op_result, mqtt_inbox, mqtt_delivered,
      mqtt_arrived, mqtt_gen, mqtt_taken, mqtt_yielded, mqtt_raised>>

vars == <<codecVars, httpVars, mqttVars>>

\* A call that has not returned yet.
Pending == [t |-> "pending"]

Returned == ret # Pending

\* The structures that have a loads, and the loads of each.
Loadable ==
    {"Config", "AgentDevicesCommands", "VersionedDeviceConfig",
     "CommandMessage"}

loads(st, raw, exception) ==
    CASE st = "Config" -> Config_loads(raw, exception)
      [] st = "AgentDevicesCommands" ->
           AgentDevicesCommands_loads(raw, exception)
      [] st = "VersionedDeviceConfig" ->
           VersionedDeviceConfig_loads(raw, exception)
      [] st = "CommandMessage" -> CommandMessage_loads(raw, exception)

\* Texts that are not JSON, and JSON documents that are not maps.
NotJson == {JStr(""), JStr("not json")}

NotMaps == {Document(EmptyList), Document(JInt(1)), Document(None)}

Texts(st) == {Document(raw) : raw \in Payloads(st)} \cup NotJson \cup NotMaps

\* The strs given to CommandStatus.from_string.
Tokens ==
    {JStr(s) : s \in StatusTokens \cup {"", "NEW", "Done", "unknown", "news"}}

\* The instants of the messages the caller sends, and the messages.
Instants ==
    {DateTime(100000000, 0), DateTime(1577826000, 0),
     DateTime(139289869, 646354)}

Reasons == {None, JStr("why")}

Statuses == {CommandStatus(CommandStatusMembers[i][1]) :
                i \in 1..Len(CommandStatusMembers)}

HttpStatusMessages ==
    {http_CommandStatusMessage(s, ts, r) :
        s \in Statuses, ts \in Instants \cup {None}, r \in Reasons}

MqttStatusMessages ==
    {mqtt_CommandStatusMessage(JStr("some_command"), s, ts, r) :
        s \in Statuses, ts \in Instants, r \in Reasons}

FromDictCalls ==
    UNION {[fn : {"from_dict"}, st : {st}, raw : Payloads(st),
            exception : ParseKinds] : st \in Structures}

LoadsCalls ==
    UNION {[fn : {"loads"}, st : {st}, raw : Texts(st),
            exception : ParseKinds] : st \in Loadable}

FromStringCalls ==
    [fn : {"from_string"}, value : Tokens, exception : ParseKinds]

ToDictCalls ==
    [fn : {"to_dict"}, self : HttpStatusMessages \cup MqttStatusMessages]

\* The microsecond timestamps decoded and encoded again.
Timestamps ==
    WireTimestamps
        \cup {JInt(0), JInt(1), JBig(100000000, 999999),
              JBig(1577826000, 1), JBig(1600000000, 123457)}

RoundTripCalls == [fn : {"dt_to_ts(dt_from_ts)"}, ts : Timestamps]

CodecCalls ==
    FromDictCalls \cup LoadsCalls \cup FromStringCalls \cup ToDictCalls
        \cup RoundTripCalls

\* No call was made to http.Client yet.
HttpIdle ==
    /\ http_pc = "idle"
    /\ http_op = [op |-> "none"]
    /\ http_sent = <<>>
    /\ http_sessions = 0
    /\ http_response = [t |-> "none"]
    /\ http_decoded = <<>>
    /\ http_result = Pending

\* mqtt.Client was constructed and nothing was asked of it yet.
MqttIdle ==
    /\ mqtt_conn = "disconnected"
    /\ mqtt_run = "none"
    /\ mqtt_calls = <<>>
    /\ mqtt_ack = None
    /\ mqtt_run_result = Pending
    /\ mqtt_op = [op |-> "none"]
    /\ mqtt_published = <<>>
    /\ mqtt_op_result = Pending
    /\ mqtt_inbox = <<>>
    /\ mqtt_delivered = 0
    /\ mqtt_arrived = <<>>
    /\ mqtt_gen = "none"
    /\ mqtt_taken = <<>>
    /\ mqtt_yielded = <<>>
    /\ mqtt_raised = Pending

CodecInit ==
    /\ call \in CodecCalls
    /\ ret = Pending
    /\ HttpIdle
    /\ MqttIdle

ApplyFromDict ==
    /\ ret = Pending
    /\ call.fn = "from_dict"
    /\ ret' = from_dict(call.st, call.raw, call.exception)
    /\ UNCHANGED <<call, httpVars, mqttVars>>

ApplyLoads ==
    /\ ret = Pending
    /\ call.fn = "loads"
    /\ ret' = loads(call.st, call.raw, call.exception)
    /\ UNCHANGED <<call, httpVars, mqttVars>>

ApplyFromString ==
    /\ ret = Pending
    /\ call.fn = "from_string"
    /\ ret' = CommandStatus_from_string(call.value, call.exception)
    /\ UNCHANGED <<call, httpVars, mqttVars>>

ApplyToDict ==
    /\ ret = Pending
    /\ call.fn = "to_dict"
    /\ ret' = IF call.self.t = "http.CommandStatusMessage"
              THEN http_CommandStatusMessage_to_dict(call.self)
              ELSE mqtt_CommandStatusMessage_to_dict(call.self)
    /\ UNCHANGED <<call, httpVars, mqttVars>>

\* dt_to_ts(dt_from_ts(ts))
ApplyRoundTrip ==
    /\ ret = Pending
    /\ call.fn = "dt_to_ts(dt_from_ts)"
    /\ ret' = LET dt == dt_from_ts(call.ts)
              IN  IF dt.ok THEN dt_to_ts(dt.val) ELSE dt
    /\ UNCHANGED <<call, httpVars, mqttVars>>

CodecNext ==
    \/ ApplyFromDict
    \/ ApplyLoads
    \/ ApplyFromString
    \/ ApplyToDict
    \/ ApplyRoundTrip

CodecSpec == CodecInit /\ [][CodecNext]_vars

\***************************************************************************
\* Properties of the decoders and encoders
\***************************************************************************

\* C2: a from_dict decoder fails exactly when a required key of its
\* structure, or of a structure within it, is absent or null (zero,
\* false, the empty str and empty collections are accepted), and it
\* then raises the caller's kind of error with a message that names a
\* key that is really missing and the structure it is missing in.
C2_RequiredKeys ==
    (Returned /\ call.fn = "from_dict") =>
        LET missing == MissingKeys(call.st, call.raw)
        IN  /\ ret.ok <=> missing = {}
            /\ ~ret.ok => /\ ret.exc = call.exception
                          /\ ret.arg \in {JStr(m) : m \in missing}

\* A tag whose id is present but null was refused under the caller's
\* kind, with the message of the specification's example.
C2_Witness ==
    /\ Returned
    /\ call.fn = "from_dict"
    /\ call.st = "Tag"
    /\ "id" \in DOMAIN call.raw.o
    /\ call.raw.o["id"] = None
    /\ ret = Raise(call.exception, JStr("Key \"id\" missing in tag input"))

\* The payload of a call to from_dict or to loads, when it is a map.
PayloadOf(c) ==
    IF c.fn = "from_dict" THEN c.raw
    ELSE IF "doc" \in DOMAIN c.raw THEN c.raw.doc
    ELSE None

TopLevel == {"CommandMessage", "AgentDevicesCommands", "Config"}

\* C3: decoding a CommandMessage, an AgentDevicesCommands or a Config,
\* from a map or from its text, is all or nothing: when a required key
\* is missing at any depth the call raises the parse error it was given
\* and returns no value.
C3_AllOrNothing ==
    (/\ Returned
     /\ call.fn \in {"from_dict", "loads"}
     /\ call.st \in TopLevel
     /\ PayloadOf(call).t = "obj"
     /\ MissingKeys(call.st, PayloadOf(call)) # {}) =>
        /\ ~ret.ok
        /\ ret.exc = call.exception
        /\ IsSubclass(ret.exc, "ParseError")
        /\ DOMAIN ret = {"ok", "exc", "arg"}

\* An inbound command message whose agent command and first device
\* command are well formed and whose second device command has no id
\* was refused as a whole.
C3_Witness ==
    /\ Returned
    /\ call.fn = "loads"
    /\ call.st = "CommandMessage"
    /\ call.raw =
           Document(ApplyDefect("CommandMessage", BigMqttPayload,
                                <<[k |-> "devices"], [i |-> 2],
                                  [k |-> "command"], [i |-> 1], [k |-> "id"]>>,
                                "absent"))
    /\ MissingKeys("Command", call.raw.doc.o["command"]) = {}
    /\ ret = Raise(call.exception, JStr("Key \"id\" missing in command input"))

\* The tokens of a command status, as the specification lists them.
SevenTokens ==
    {"new", "sending", "sent", "received", "skipped", "done", "failed"}

\* C6: from_string of each of the seven tokens returns a status whose
\* value is that token; from_string of any other str raises the
\* caller's kind of error and returns no status.
C6_StatusRoundTrip ==
    (Returned /\ call.fn = "from_string") =>
        IF call.value.s \in SevenTokens
        THEN /\ ret.ok
             /\ ret.val \in Statuses
             /\ StatusValue(ret.val) = call.value.s
        ELSE /\ ~ret.ok
             /\ ret.exc = call.exception

\* A str that is no token, differing from one only by case, was refused
\* under the caller's kind.
C6_Witness ==
    /\ Returned
    /\ call.fn = "from_string"
    /\ call.value = JStr("Done")
    /\ ~ret.ok
    /\ ret.exc = call.exception

\* The epoch-microsecond integer of an instant.
EpochMicroseconds(dt) == JBig(dt.sec, dt.us)

\* C10: the request/response encoding of a CommandStatusMessage has
\* exactly status, reason and timestamp, the publish/subscribe encoding
\* exactly id, status, reason and timestamp; status is the token of the
\* status, reason is passed through, and timestamp is null for a message
\* without one and otherwise the epoch-microsecond integer of the
\* instant.
C10_StatusMessageEncoding ==
    (Returned /\ call.fn = "to_dict") =>
        LET self == call.self
            http == self.t = "http.CommandStatusMessage"
        IN  /\ ret.ok
            /\ ret.val.t = "obj"
            /\ DOMAIN ret.val.o =
                   IF http THEN {"status", "reason", "timestamp"}
                   ELSE {"id", "status", "reason", "timestamp"}
            /\ ~http => ret.val.o["id"] = self.id
            /\ ret.val.o["status"] = JStr(self.status.name)
            /\ self.status.name \in SevenTokens
            /\ ret.val.o["reason"] = self.reason
            /\ ret.val.o["timestamp"] =
                   IF self.timestamp = None THEN None
                   ELSE EpochMicroseconds(self.timestamp)

\* C17: a map that has every required key decodes, and each optional key
\* it lacks (absent or null) gives absence for a scalar or a structure,
\* the empty map for a map and no children for a list of children.
C17_OptionalFields ==
    (/\ Returned
     /\ call.fn = "from_dict"
     /\ call.raw.t = "obj"
     /\ MissingKeys(call.st, call.raw) = {}) =>
        /\ ret.ok
        /\ \A f \in Schema[call.st].fields :
               (~f.req /\ Lacks(call.raw, f.key)) =>
                   CASE f.kind = "map"  -> ret.val[f.key] = JObj(<<>>)
                     [] f.kind = "list" -> DOMAIN ret.val[f.key] = {}
                     [] OTHER           -> ret.val[f.key] = [t |-> "null"]

\* C17: a tag with children: null and no driver_config was decoded to a
\* tag with no children and the empty map of driver_config.
C17_Witness ==
    /\ Returned
    /\ call.fn = "from_dict"
    /\ call.st = "Tag"
    /\ call.raw.t = "obj"
    /\ "children" \in DOMAIN call.raw.o
    /\ call.raw.o["children"] = None
    /\ ret.ok
    /\ DOMAIN ret.val.children = {}
    /\ "driver_config" \notin DOMAIN call.raw.o
    /\ ret.val.driver_config = JObj(<<>>)

\* C16: decoding an integer of microseconds since the epoch and encoding
\* the instant again gives the integer back.
C16_TimestampRoundTrip ==
    (Returned /\ call.fn = "dt_to_ts(dt_from_ts)") => ret = Ok(call.ts)

\* C16, for the timestamp of 2020-01-01T00:00:00 alone.
C16_WholeSeconds ==
    (Returned /\ call.fn = "dt_to_ts(dt_from_ts)"
        /\ call.ts = JBig(1577826000, 0)) =>
        ret = Ok(call.ts)

\***************************************************************************
\* coiiot_client/http.py: the client
\***************************************************************************

\* Client(base_url, auth, timeout = 20)
BaseUrl == "http://iot.example"

Timeout == 20

\* Auth(client_id, agent_id, agent_token)
TheAuth == [client_id |-> 1, agent_id |-> 2, token |-> "agent-token"]

Auth_login(auth) == ToString(auth.client_id) \o "_" \o ToString(auth.agent_id)

Auth_passw(auth) == auth.token

\* An f-string that shows values: the str of its parts, one after the
\* other.
FString(parts) == [t |-> "str", f |-> parts]

\* _do_request had it taken every 2xx status for success.
do_request_any_2xx(url, status, response) ==
    IF status \in 200..299
    THEN Ok([t |-> "obj",
             o |-> [status |-> JInt(status), text |-> response]])
    ELSE Raise("HTTPError", response)

\* _do_request had it taken 201 Created and 204 No Content for success
\* as well.
do_request_created_or_empty(url, status, response) ==
    IF status \in {200, 201, 204}
    THEN Ok(JObj([status |-> JInt(status), text |-> response]))
    ELSE Raise("HTTPError", response)

\* What _do_request makes of the status and the text of a response.
do_request(url, status, response) ==
    CASE status = 200 ->
           Ok(JObj([status |-> JInt(status), text |-> response]))
      [] status = 400 -> Raise("BadParamsError", response)
      [] status = 401 -> Raise("UnauthorizedError", response)
      [] status = 404 -> Raise("NotFoundError", response)
      [] status = 500 -> Raise("InternalServerError", response)
      [] OTHER ->
           Raise("HTTPError",
                 FString(<<JStr("'"), JStr(url),
                           JStr("' returns unexpected status code '"),
                           JInt(status), JStr("' with body '"), response,
                           JStr("' ")>>))

\* The decoder an operation gives resp['text'] to, and the kind of error
\* it gives it; the sending operations have none.
Decoder ==
    [get_config |-> [st |-> "Config",
                     exception |-> "ImproperlyConfigurationError"],
     get_commands |-> [st |-> "AgentDevicesCommands",
                       exception |-> "ParseError"],
     get_device_versioned_config |->
         [st |-> "VersionedDeviceConfig", exception |-> "ParseError"]]

\* _do_request up to the request being sent: a session is opened and the
\* request goes out with the client's timeout and credentials.
SendRequest(op, method, url, kwargs) ==
    /\ http_pc' = "awaiting"
    /\ http_op' = op
    /\ http_sessions' = http_sessions + 1
    /\ http_sent' = <<[method |-> method, url |-> url, timeout |-> Timeout,
                       login |-> Auth_login(TheAuth),
                       password |-> Auth_passw(TheAuth),
                       kwargs |-> kwargs]>>
    /\ http_response' = [t |-> "none"]
    /\ http_decoded' = <<>>
    /\ http_result' = Pending
    /\ UNCHANGED <<codecVars, mqttVars>>

\* An operation whose argument could not be encoded leaves before any
\* request.
LeaveEarly(op, exc) ==
    /\ http_op' = op
    /\ http_sent' = <<>>
    /\ http_response' = [t |-> "none"]
    /\ http_decoded' = <<>>
    /\ http_result' = exc
    /\ UNCHANGED <<http_pc, http_sessions, codecVars, mqttVars>>

\* An operation that sends json: the value is encoded first.
SendJson(op, method, url, encoded) ==
    IF encoded.ok
    THEN SendRequest(op, method, url, [json |-> encoded.val])
    ELSE LeaveEarly(op, encoded)

\* What the caller passes; one status message carries an int where a
\* datetime is meant.
Versions == {None, JStr("v1")}

CommandIds == {"some_command"}

DeviceIds == {1}

VersionIds == {1}

SentStatuses ==
    {http_CommandStatusMessage(CommandStatus("done"), None, None),
     http_CommandStatusMessage(CommandStatus("failed"),
                               DateTime(100000000, 0), JStr("why")),
     http_CommandStatusMessage(CommandStatus("done"), JInt(100), None),
     http_CommandStatusMessage(CommandStatus("new"), None, None),
     http_CommandStatusMessage(CommandStatus("done"), None,
                               JStr("as expected"))}

\* The status the operation before this one reported, if it was a report
\* of a status: the client keeps none of it, the field only tells the
\* reports of an operation apart by what came before.
LastReported(op) ==
    IF "status" \in DOMAIN op THEN op.status.status
    ELSE IF op.op \in {"send_agent_command_status",
                       "send_device_command_status"}
    THEN op.msg.status
    ELSE None

EventTag(id, value, timestamp) ==
    [t |-> "EventTag", id |-> id, value |-> value, timestamp |-> timestamp]

EventMessage(tags) == [t |-> "EventMessage", tags |-> tags]

LogRecord(level, message) ==
    [t |-> "LogRecord", level |-> level, message |-> message]

Events ==
    {EventMessage(<<EventTag(JInt(1), JInt(42), DateTime(100000000, 0))>>),
     EventMessage(<<>>)}

Logs == {<<>>, <<LogRecord(LogLevel("info"), JStr("started"))>>}

get_config ==
    /\ http_pc = "idle"
    /\ \E version \in Versions :
           SendRequest([op |-> "get_config", version |-> version], "get",
                       BaseUrl \o "/v1/agents/config",
                       [params |-> IF version # None
                                   THEN JObj([version |-> version])
                                   ELSE EmptyObj])

http_send_agent_command_status ==
    /\ http_pc = "idle"
    /\ \E command_id \in CommandIds, status \in SentStatuses :
           SendJson([op |-> "send_agent_command_status",
                     command_id |-> command_id, status |-> status,
                     after |-> LastReported(http_op)],
                    "patch",
                    BaseUrl \o "/v1/agents/" \o ToString(TheAuth.agent_id)
                        \o "/commands/" \o command_id \o "/status",
                    http_CommandStatusMessage_to_dict(status))

get_commands ==
    /\ http_pc = "idle"
    /\ SendRequest([op |-> "get_commands"], "get", BaseUrl \o "/v1/commands",
                   <<>>)

get_device_versioned_config ==
    /\ http_pc = "idle"
    /\ \E version_id \in VersionIds :
           SendRequest([op |-> "get_device_versioned_config",
                        version_id |-> version_id],
                       "get",
                       BaseUrl \o "/v1/devices/config/" \o ToString(version_id),
                       <<>>)

http_send_device_command_status ==
    /\ http_pc = "idle"
    /\ \E device_id \in DeviceIds, command_id \in CommandIds,
          status \in SentStatuses :
           SendJson([op |-> "send_device_command_status",
                     device_id |-> device_id, command_id |-> command_id,
                     status |-> status, after |-> LastReported(http_op)],
                    "patch",
                    BaseUrl \o "/v1/devices/" \o ToString(device_id)
                        \o "/commands/" \o command_id \o "/status",
                    http_CommandStatusMessage_to_dict(status))

http_send_event ==
    /\ http_pc = "idle"
    /\ \E msg \in Events :
           SendJson([op |-> "send_event", msg |-> msg], "post",
                    BaseUrl \o "/v1/events", EventMessage_to_dict(msg))

http_send_logs ==
    /\ http_pc = "idle"
    /\ \E records \in Logs :
           SendJson([op |-> "send_logs", records |-> records], "post",
                    BaseUrl \o "/v1/logs",
                    Ok(JList([i \in 1..Len(records) |->
                                 LogRecord_to_dict(records[i])])))

\* The statuses and the body texts the server may answer with.
StatusCodes == {200, 201, 204, 302, 400, 401, 403, 404, 500, 503}

PlainBodies == {JStr(""), JStr("error text"), Document(EmptyObj)}

Reads(op) == op \in DOMAIN Decoder

Bodies(op, status) ==
    IF ~Reads(op) THEN PlainBodies
    ELSE IF status = 200 THEN Texts(Decoder[op].st)
    ELSE PlainBodies \cup {Document(Biggest(Decoder[op].st))}

\* A client that would send its request once more when it fails.
RequestsRetried(sent, outcome) ==
    IF outcome.ok THEN sent ELSE sent \o sent

\* The requests of an operation once it leaves with outcome: there is no
\* loop around the request of _do_request nor around the call of it, so
\* they are the one request it made.
Requests(sent, outcome) == sent

\* A session that would be closed only when _do_request returns.
SessionsAfterReturn(open, outcome) ==
    IF outcome.ok THEN open - 1 ELSE open

\* async with aiohttp.ClientSession(...) as session: the sessions open
\* once _do_request has left the block with outcome; every way out of
\* the block closes the session it opened.
SessionsAfter(open, outcome) == open - 1

\* The response arrives: _do_request reads its text, leaves the session
\* (which closes it) and returns or raises by the status; the operation
\* then gives the text to its decoder, if it has one.
Respond ==
    /\ http_pc = "awaiting"
    /\ \E status \in StatusCodes :
           \E body \in Bodies(http_op.op, status) :
               LET resp == do_request(http_sent[1].url, status, body)
                   decodes == resp.ok /\ Reads(http_op.op)
               IN  /\ http_response' = [t |-> "response", status |-> status,
                                        text |-> body]
                   /\ http_decoded' =
                          IF decodes THEN <<resp.val.o["text"]>> ELSE <<>>
                   /\ http_result' =
                          IF decodes
                          THEN loads(Decoder[http_op.op].st,
                                     resp.val.o["text"],
                                     Decoder[http_op.op].exception)
                          ELSE IF resp.ok THEN Ok(None)
                          ELSE resp
                   /\ http_sessions' = SessionsAfter(http_sessions, resp)
                   /\ http_sent' =
                          Requests(http_sent,
                                   IF decodes
                                   THEN loads(Decoder[http_op.op].st,
                                              resp.val.o["text"],
                                              Decoder[http_op.op].exception)
                                   ELSE resp)
    /\ http_pc' = "idle"
    /\ UNCHANGED <<http_op, codecVars, mqttVars>>

\* No response arrives: the request raises what aiohttp raises when the
\* timeout passes or the connection fails, and the session is left.
TransportErrors == {"TimeoutError", "ClientConnectionError"}

RequestFails ==
    /\ http_pc = "awaiting"
    /\ \E kind \in TransportErrors :
           /\ http_result' = Raise(kind, None)
           /\ http_sessions' =
                  SessionsAfter(http_sessions, Raise(kind, None))
           /\ http_sent' = Requests(http_sent, Raise(kind, None))
    /\ http_pc' = "idle"
    /\ UNCHANGED <<http_op, http_response, http_decoded, codecVars,
                   mqttVars>>

\* The response arrives but its body cannot be read: resp.text() raises,
\* nothing looks at the status, and the session is left.
ReadErrors == {"ClientPayloadError", "UnicodeDecodeError"}

ReadFails ==
    /\ http_pc = "awaiting"
    /\ \E status \in StatusCodes, kind \in ReadErrors :
           /\ http_response' = [t |-> "unread", status |-> status]
           /\ http_result' = Raise(kind, None)
           /\ http_sessions' =
                  SessionsAfter(http_sessions, Raise(kind, None))
           /\ http_sent' = Requests(http_sent, Raise(kind, None))
    /\ http_pc' = "idle"
    /\ UNCHANGED <<http_op, http_decoded, codecVars, mqttVars>>

HttpInit ==
    /\ call = [fn |-> "none"]
    /\ ret = Pending
    /\ HttpIdle
    /\ MqttIdle

HttpNext ==
    \/ get_config
    \/ http_send_agent_command_status
    \/ get_commands
    \/ get_device_versioned_config
    \/ http_send_device_command_status
    \/ http_send_event
    \/ http_send_logs
    \/ Respond
    \/ RequestFails
    \/ ReadFails

HttpSpec == HttpInit /\ [][HttpNext]_vars

\***************************************************************************
\* Properties of the request/response client
\***************************************************************************

\* The kind of error the specification gives each status other than 200.
ErrorOfStatus(status) ==
    CASE status = 400 -> "BadParamsError"
      [] status = 401 -> "UnauthorizedError"
      [] status = 404 -> "NotFoundError"
      [] status = 500 -> "InternalServerError"
      [] OTHER        -> "HTTPError"

\* The parts of an error's argument.
Carries(arg, value) ==
    "f" \in DOMAIN arg /\ \E i \in 1..Len(arg.f) : arg.f[i] = value

Responded == http_pc = "idle" /\ http_response.t = "response"

\* C1: for every operation and every status: on 200 the call raises no
\* HTTP error and the body text reaches the operation's decoder as it
\* came; on 400, 401, 404 and 500 the call raises BadParamsError,
\* UnauthorizedError, NotFoundError and InternalServerError with the
\* body as it came; on any other status it raises HTTPError itself,
\* carrying the status and the body; and on any status but 200 no
\* decoder runs and nothing is returned.
C1_StatusMapping ==
    Responded =>
        LET status == http_response.status
            body == http_response.text
        IN  IF status = 200
            THEN /\ http_result.ok \/ ~IsSubclass(http_result.exc, "HTTPError")
                 /\ Reads(http_op.op) =>
                        /\ http_decoded = <<body>>
                        /\ http_result =
                               loads(Decoder[http_op.op].st, body,
                                     Decoder[http_op.op].exception)
                 /\ ~Reads(http_op.op) => http_result.ok
            ELSE /\ ~http_result.ok
                 /\ http_result.exc = ErrorOfStatus(status)
                 /\ IF status \in {400, 401, 404, 500}
                    THEN http_result.arg = body
                    ELSE /\ Carries(http_result.arg, JInt(status))
                         /\ Carries(http_result.arg, body)
                 /\ http_decoded = <<>>

\* get_commands was answered 503 with a body that would have decoded:
\* the call raised HTTPError and the decoder did not run.
C1_Witness ==
    /\ Responded
    /\ http_op.op = "get_commands"
    /\ http_response.status = 503
    /\ http_response.text = Document(BigHttpPayload)
    /\ http_result.exc = "HTTPError"
    /\ http_decoded = <<>>

\* The instant a microsecond timestamp of the wire names.
Instant(ts) == DateTime(ts.hi, ts.lo)

\* The value under a key of a payload map that may lack it.
Field(raw, key) == IF key \in DOMAIN raw.o THEN raw.o[key] ELSE None

\* What the specification makes of a command of a get_commands payload.
ExpectedCommand(raw) ==
    [t |-> "CommandExtended",
     id |-> raw.o["id"],
     tags |-> [i \in 1..Len(raw.o["tags"].l) |->
                  [t |-> "CommandTag",
                   id |-> raw.o["tags"].l[i].o["tag_id"],
                   value |-> raw.o["tags"].l[i].o["value"]]],
     status |-> CommandStatus(raw.o["status"].s),
     reason |-> Field(raw, "reason"),
     created_at |-> Instant(raw.o["created_at"]),
     updated_at |-> Instant(raw.o["updated_at"])]

ExpectedCommands(raw) ==
    [t |-> "AgentDevicesCommands",
     command |-> IF Field(raw, "command") = None THEN None
                 ELSE ExpectedCommand(raw.o["command"]),
     devices |-> [i \in 1..Len(raw.o["devices"].l) |->
                     [t |-> "DeviceCommand",
                      device_id |-> raw.o["devices"].l[i].o["device_id"],
                      command |->
                          ExpectedCommand(raw.o["devices"].l[i].o["command"])]]]

\* get_commands was answered 200 with the text of a well-formed payload.
GotCommands ==
    /\ Responded
    /\ http_op.op = "get_commands"
    /\ http_response.status = 200
    /\ http_response.text \in {Document(raw) : raw \in RawHttpPayloads}

\* C7: for every well-formed get_commands payload the call returns an
\* AgentDevicesCommands whose command is none exactly when the
\* payload's command is absent or null and is otherwise the decoded
\* agent command, and whose devices are the payload's entries in their
\* order, each with its device_id and its decoded command.
C7_GetCommands ==
    GotCommands =>
        /\ http_result.ok
        /\ http_result.val = ExpectedCommands(http_response.text.doc)
        /\ http_result.val.command = None
               <=> Field(http_response.text.doc, "command") = None

\* A payload without an agent command and with the most device commands
\* was decoded.
C7_Witness ==
    /\ GotCommands
    /\ "command" \notin DOMAIN http_response.text.doc.o
    /\ Len(http_response.text.doc.o["devices"].l) = MaxDevices
    /\ http_result.ok
    /\ Len(http_result.val.devices) = MaxDevices
    /\ http_result.val.devices[MaxDevices].command.id
           = JStr("cmd-" \o ChildNames[MaxDevices])

\* The children of a tag of a payload.
RawChildren(raw) ==
    IF Field(raw, "children") = None THEN <<>> ELSE raw.o["children"].l

\* The decoded tag has the id, the name and as many children as the tag
\* of the payload, and under the name of each child of the payload a tag
\* of that child's shape.
RECURSIVE SameShape(_, _)
SameShape(raw, tag) ==
    LET kids == RawChildren(raw)
    IN  /\ tag.id = raw.o["id"]
        /\ tag.name = raw.o["name"]
        /\ Cardinality(DOMAIN tag.children) = Len(kids)
        /\ \A i \in 1..Len(kids) :
               /\ kids[i].o["name"] \in DOMAIN tag.children
               /\ SameShape(kids[i], tag.children[kids[i].o["name"]])

\* Every key of children is the name of the tag under it, at any depth.
RECURSIVE KeyedByName(_)
KeyedByName(tag) ==
    \A k \in DOMAIN tag.children :
        tag.children[k].name = k /\ KeyedByName(tag.children[k])

\* No two children of a tag of the payload have the same name, at any
\* depth.
RECURSIVE DistinctNames(_)
DistinctNames(raw) ==
    LET kids == RawChildren(raw)
    IN  \A i \in 1..Len(kids) :
            /\ \A j \in 1..Len(kids) :
                   kids[i].o["name"] = kids[j].o["name"] => i = j
            /\ DistinctNames(kids[i])

\* The decoded tag has, under each name of a child of the payload, a tag
\* of the shape of the last child of that name, and nothing else.
RECURSIVE LastOfEachName(_, _)
LastOfEachName(raw, tag) ==
    LET kids == RawChildren(raw)
    IN  /\ tag.id = raw.o["id"]
        /\ tag.name = raw.o["name"]
        /\ DOMAIN tag.children = {kids[i].o["name"] : i \in 1..Len(kids)}
        /\ \A i \in 1..Len(kids) :
               (\A j \in 1..Len(kids) :
                    kids[j].o["name"] = kids[i].o["name"] => j <= i)
                   => LastOfEachName(kids[i],
                                     tag.children[kids[i].o["name"]])

\* get_config was answered 200 with the text of a well-formed payload.
GotConfig ==
    /\ Responded
    /\ http_op.op = "get_config"
    /\ http_response.status = 200
    /\ http_response.text \in {Document(raw) : raw \in RawConfigs}

\* The tags of a payload, each with the key of the tag decoded from it:
\* the agent's, then each device's.
TagPairs(raw, config) ==
    {<<raw.o["agent"].o["tag"], config.agent.tag>>}
        \cup {<<raw.o["agent"].o["devices"].l[i].o["tag"],
                config.agent.devices[i].tag>> :
                 i \in 1..Len(raw.o["agent"].o["devices"].l)}

\* C8, for every payload: for every well-formed config payload the agent's tag
\* and every device's tag decode to a Tag tree of the payload's shape at
\* every depth, with every key of children the name of the child under
\* it.
C8_ExactTopology ==
    GotConfig =>
        /\ http_result.ok
        /\ Len(http_result.val.agent.devices)
               = Len(http_response.text.doc.o["agent"].o["devices"].l)
        /\ \A pair \in TagPairs(http_response.text.doc, http_result.val) :
               SameShape(pair[1], pair[2]) /\ KeyedByName(pair[2])

\* C8, by names: for every well-formed config payload every key of
\* children is the name of the child under it and children holds, for
\* each name among the children of the payload, the last child of that
\* name; so the tree has the payload's shape at every depth whenever no
\* two children of a tag share a name.
C8_TopologyOfDistinctNames ==
    GotConfig =>
        /\ http_result.ok
        /\ Len(http_result.val.agent.devices)
               = Len(http_response.text.doc.o["agent"].o["devices"].l)
        /\ \A pair \in TagPairs(http_response.text.doc, http_result.val) :
               /\ KeyedByName(pair[2])
               /\ LastOfEachName(pair[1], pair[2])
               /\ DistinctNames(pair[1]) => SameShape(pair[1], pair[2])

\* A config whose tags nest to the full depth with the most children,
\* all of different names, was decoded for the agent and two devices.
C8_Witness ==
    /\ GotConfig
    /\ http_response.text.doc.o["agent"].o["tag"] = BigTree
    /\ DistinctNames(BigTree)
    /\ Len(http_result.val.agent.devices) = MaxDevices
    /\ Cardinality(DOMAIN http_result.val.agent.tag.children) = MaxChildren
    /\ SameShape(BigTree, http_result.val.agent.devices[MaxDevices].tag)

\* An operation of the request/response client has returned or raised.
Left == http_pc = "idle" /\ http_op.op # "none"

\* C11: an exchange has exactly one session open while it waits (its
\* own: none was open when it began), and whenever the client is between
\* operations, however the last one ended, no session is open.
C11_NoSessionLeft ==
    /\ http_pc = "awaiting" => http_sessions = 1
    /\ http_pc = "idle" => http_sessions = 0

\* C11: an operation ended because the body of its response could not
\* be read, and no session is open.
C11_Witness ==
    /\ Left
    /\ http_response.t = "unread"
    /\ ~http_result.ok
    /\ http_result.exc \in ReadErrors
    /\ http_sessions = 0

\* C12: an operation whose request has timed out has failed with an
\* error of the HTTPError kind.
C12_TimeoutIsTransportError ==
    (Left /\ ~http_result.ok /\ http_result.exc = "TimeoutError") =>
        IsSubclass(http_result.exc, "HTTPError")

\* C13: what an operation answered 200 reports to its caller, if it
\* fails, is an error of the APIError kinds, whatever the body is.
C13_OnlyApiErrors ==
    (Responded /\ http_response.status = 200 /\ ~http_result.ok) =>
        IsSubclass(http_result.exc, "APIError")

\* The structure an operation that reads its response decodes.
Decoded ==
    CASE http_op.op = "get_config" -> "Config"
      [] http_op.op = "get_commands" -> "AgentDevicesCommands"
      [] http_op.op = "get_device_versioned_config" ->
           "VersionedDeviceConfig"

\* An operation that reads its response was answered 200 with a map that
\* lacks a required key, at whatever depth.
LacksRequired ==
    /\ Responded
    /\ http_response.status = 200
    /\ http_op.op \in
           {"get_config", "get_commands", "get_device_versioned_config"}
    /\ "doc" \in DOMAIN http_response.text
    /\ http_response.text.doc.t = "obj"
    /\ MissingKeys(Decoded, http_response.text.doc) # {}

\* C14: a required key missing at any depth of a get_config response is
\* raised as ImproperlyConfigurationError; one missing from a
\* get_commands or get_device_versioned_config response is raised as
\* ParseError itself.
C14_ConfigurationErrorKind ==
    LacksRequired =>
        /\ ~http_result.ok
        /\ http_result.exc =
               IF http_op.op = "get_config"
               THEN "ImproperlyConfigurationError"
               ELSE "ParseError"

\* C14: get_config was answered a configuration in which the type of a
\* child of a child of the agent's tag has no id, and raised
\* ImproperlyConfigurationError for it.
C14_Witness ==
    /\ LacksRequired
    /\ http_op.op = "get_config"
    /\ http_response.text.doc =
           ApplyDefect("Config", BigConfig,
                       <<[k |-> "agent"], [i |-> 1], [k |-> "tag"], [i |-> 1],
                         [k |-> "children"], [i |-> 1],
                         [k |-> "children"], [i |-> 1],
                         [k |-> "type"], [i |-> 1], [k |-> "id"]>>,
                       "absent")
    /\ http_result =
           Raise("ImproperlyConfigurationError",
                 JStr("Key \"id\" missing in tag type input"))

\* The names of the children of a tag of the payload.
ChildNamesOf(raw) ==
    {RawChildren(raw)[i].o["name"] : i \in 1..Len(RawChildren(raw))}

\* C21: a tag that has its required keys decodes also when children of it
\* share a name; the decoded tag has one child for each distinct name
\* among its raw children, and that child is the last raw child of the
\* name.
C21_LastOfDuplicateNames ==
    (/\ Returned
     /\ call.fn = "from_dict"
     /\ call.st = "Tag"
     /\ call.raw.t = "obj"
     /\ MissingKeys("Tag", call.raw) = {}) =>
        LET kids == RawChildren(call.raw)
        IN  /\ ret.ok
            /\ Cardinality(DOMAIN ret.val.children) =
                   Cardinality(ChildNamesOf(call.raw))
            /\ \A i \in 1..Len(kids) :
                   (\A j \in 1..Len(kids) :
                        kids[j].o["name"] = kids[i].o["name"] => j <= i)
                       => ret.val.children[kids[i].o["name"]].id
                              = kids[i].o["id"]

\* C21: a tag with two children of one name was decoded to a tag with one
\* child, the second of the two.
C21_Witness ==
    /\ Returned
    /\ call.fn = "from_dict"
    /\ call.st = "Tag"
    /\ call.raw = RawTree(1, "root", 1, [width |-> 2, same |-> TRUE])
    /\ Len(RawChildren(call.raw)) = 2
    /\ ret.ok
    /\ Cardinality(DOMAIN ret.val.children) = 1
    /\ \A k \in DOMAIN ret.val.children : ret.val.children[k].id = JInt(12)

\* C22: an operation answered with a status of 201 to 299 raises
\* HTTPError itself, not one of its subkinds, and returns nothing.
C22_Only200IsSuccess ==
    (Responded /\ http_response.status \in 201..299) =>
        /\ ~http_result.ok
        /\ http_result.exc = "HTTPError"
        /\ http_decoded = <<>>

\* C22: send_event was answered 204 and raised HTTPError.
C22_Witness ==
    /\ Responded
    /\ http_op.op = "send_event"
    /\ Len(http_sent) = 1
    /\ http_response.status = 204
    /\ ~http_result.ok
    /\ http_result.exc = "HTTPError"

\***************************************************************************
\* coiiot_client/mqtt.py: the client
\***************************************************************************

\* hbmqtt.mqtt.constants.QOS_1
QOS_1 == 1

\* The return code of a SUBACK for a subscription the broker refuses.
SubscriptionFailure == 128

\* The return codes of a SUBACK: the QoS granted, or the failure.
ReturnCodes == {0, 1, SubscriptionFailure}

\* Client(broker_uri, auth): the uri run() connects to.
BrokerHost == "broker.example:1883"

BrokerUri ==
    "mqtt://" \o Auth_login(TheAuth) \o ":" \o Auth_passw(TheAuth) \o "@"
        \o BrokerHost

\* str.encode("utf8") and bytes.decode("utf8")
Utf8Encode(text) == [t |-> "bytes", utf8 |-> text]

Utf8Decode(data) == data.utf8

\* a == b of Python, for the values met here: values of different types
\* are not equal, except that a bool is the int 0 or 1.
AsInt(v) == IF v.t = "bool" THEN JInt(IF v.b THEN 1 ELSE 0) ELSE v

PyEq(a, b) == AsInt(a).t = AsInt(b).t /\ AsInt(a) = AsInt(b)

\* The topics of the client.
InboundTopic == "iot/cmd/agent/" \o ToString(TheAuth.agent_id) \o "/fmt/json"

EventTopic == "iot/event/fmt/json"

AgentStatusTopic ==
    "iot/cmd/agent/" \o ToString(TheAuth.agent_id) \o "/status/fmt/json"

\* A status topic that names the agent of the client where the device of
\* the command belongs.
DeviceStatusTopicOfAgent(device_id) ==
    "iot/cmd/device/" \o ToString(TheAuth.agent_id) \o "/status/fmt/json"

DeviceStatusTopic(device_id) ==
    "iot/cmd/device/" \o ToString(device_id) \o "/status/fmt/json"

LogTopic == "iot/log/fmt/json"

runVars == <<mqtt_run, mqtt_calls, mqtt_ack, mqtt_run_result>>

outVars == <<mqtt_op, mqtt_published, mqtt_op_result>>

inVars ==
    <<mqtt_inbox, mqtt_delivered, mqtt_arrived, mqtt_gen, mqtt_taken,
      mqtt_yielded,
      mqtt_raised>>

\* run() is called on a client that is not connected: it asks hbmqtt to
\* connect and waits.
run ==
    /\ mqtt_run \in {"none", "returned", "raised"}
    /\ mqtt_conn = "disconnected"
    /\ mqtt_run' = "connecting"
    /\ mqtt_calls' = <<[call |-> "connect", uri |-> BrokerUri]>>
    /\ mqtt_ack' = None
    /\ mqtt_run_result' = Pending
    /\ UNCHANGED <<mqtt_conn, outVars, inVars, codecVars, httpVars>>

\* The connection is made: run() goes on to subscribe and waits for the
\* SUBACK.
Connected ==
    /\ mqtt_run = "connecting"
    /\ mqtt_conn' = "connected"
    /\ mqtt_run' = "subscribing"
    /\ mqtt_calls' =
           Append(mqtt_calls,
                  [call |-> "subscribe",
                   topics |-> <<[topic |-> InboundTopic, qos |-> QOS_1]>>])
    /\ UNCHANGED <<mqtt_ack, mqtt_run_result, outVars, inVars, codecVars,
                   httpVars>>

\* The connection cannot be made: connect raises, and so does run().
ConnectFails ==
    /\ mqtt_run = "connecting"
    /\ mqtt_run' = "raised"
    /\ mqtt_run_result' = Raise("ConnectException", None)
    /\ UNCHANGED <<mqtt_conn, mqtt_calls, mqtt_ack, outVars, inVars,
                   codecVars, httpVars>>

\* The SUBACK arrives: hbmqtt's subscribe returns the return codes of the
\* SUBACK, a list with one code for each topic asked for, and run()
\* compares what it got with 0x80.
SubAck ==
    /\ mqtt_run = "subscribing"
    /\ \E code \in ReturnCodes :
           LET ret_code == JList(<<JInt(code)>>)
           IN  /\ mqtt_ack' = JInt(code)
               /\ IF PyEq(ret_code, JInt(SubscriptionFailure))
                  THEN /\ mqtt_run' = "raised"
                       /\ mqtt_run_result' = Raise("SubscriptionError", None)
                  ELSE /\ mqtt_run' = "returned"
                       /\ mqtt_run_result' = Ok(None)
    /\ UNCHANGED <<mqtt_conn, mqtt_calls, outVars, inVars, codecVars,
                   httpVars>>

\* close(): disconnect
close ==
    /\ mqtt_conn = "connected"
    /\ mqtt_run \in {"returned", "raised"}
    /\ mqtt_conn' = "disconnected"
    /\ UNCHANGED <<runVars, outVars, inVars, codecVars, httpVars>>

\* An outbound operation on a connected client: its payload is encoded
\* first, and then published once at QOS_1; an exception of the encoding
\* leaves the operation before it publishes.
Publish(op, topic, encoded) ==
    /\ mqtt_op' = op
    /\ mqtt_published' =
           IF encoded.ok
           THEN <<[topic |-> topic, payload |-> Utf8Encode(encoded.val),
                   qos |-> QOS_1]>>
           ELSE <<>>
    /\ mqtt_op_result' = IF encoded.ok THEN Ok(None) ELSE encoded
    /\ UNCHANGED <<mqtt_conn, runVars, inVars, codecVars, httpVars>>

\* What the caller passes; one status message carries an int where a
\* datetime is meant.
PublishedStatuses ==
    {mqtt_CommandStatusMessage(JStr("some_command"), CommandStatus("done"),
                               DateTime(100000000, 0), None),
     mqtt_CommandStatusMessage(JStr("some_command"), CommandStatus("failed"),
                               DateTime(1577826000, 0), JStr("why")),
     mqtt_CommandStatusMessage(JStr("some_command"), CommandStatus("done"),
                               JInt(100), None),
     mqtt_CommandStatusMessage(JStr("some_command"), CommandStatus("new"),
                               DateTime(1577826000, 0), None),
     mqtt_CommandStatusMessage(JStr("some_command"), CommandStatus("done"),
                               DateTime(1577826000, 0), JStr("as expected"))}

PublishedDeviceIds == {1, 2}

mqtt_send_event ==
    /\ mqtt_conn = "connected"
    /\ \E msg \in Events :
           Publish([op |-> "send_event", msg |-> msg], EventTopic,
                   EventMessage_dumps(msg))

mqtt_send_agent_command_status ==
    /\ mqtt_conn = "connected"
    /\ \E msg \in PublishedStatuses :
           Publish([op |-> "send_agent_command_status", msg |-> msg,
                    after |-> LastReported(mqtt_op)],
                   AgentStatusTopic, mqtt_CommandStatusMessage_dumps(msg))

mqtt_send_device_command_status ==
    /\ mqtt_conn = "connected"
    /\ \E device_id \in PublishedDeviceIds, msg \in PublishedStatuses :
           Publish([op |-> "send_device_command_status",
                    device_id |-> device_id, msg |-> msg,
                    after |-> LastReported(mqtt_op)],
                   DeviceStatusTopic(device_id),
                   mqtt_CommandStatusMessage_dumps(msg))

\* json.dumps(records): simplejson writes a NamedTuple as the map of its
\* fields and an IntEnum as its int.
mqtt_send_logs ==
    /\ mqtt_conn = "connected"
    /\ \E records \in Logs :
           Publish([op |-> "send_logs", records |-> records], LogTopic,
                   json_dumps(JList([i \in 1..Len(records) |->
                                        LogRecord_to_dict(records[i])])))

\* The most messages the broker delivers.
MaxDelivered == 2

\* The texts the broker delivers on the inbound topic: well-formed
\* command messages, one without the tags of its command and one that is
\* not JSON.
InboundTexts ==
    {Document(BigMqttPayload),
     Document(JObj([devices |-> EmptyList])),
     Document(ApplyDefect("CommandMessage", BigMqttPayload,
                          <<[k |-> "command"], [i |-> 1], [k |-> "tags"]>>,
                          "absent")),
     JStr("not json")}

\* The broker delivers a message on the topic it granted.
Deliver ==
    /\ mqtt_conn = "connected"
    /\ mqtt_ack \notin {None, JInt(SubscriptionFailure)}
    /\ mqtt_delivered < MaxDelivered
    /\ \E text \in InboundTexts :
           LET message == [topic |-> InboundTopic, data |-> Utf8Encode(text)]
           IN  /\ mqtt_inbox' = Append(mqtt_inbox, message)
               /\ mqtt_arrived' = Append(mqtt_arrived, message)
    /\ mqtt_delivered' = mqtt_delivered + 1
    /\ UNCHANGED <<mqtt_conn, runVars, outVars, mqtt_gen, mqtt_taken,
                   mqtt_yielded, mqtt_raised, codecVars, httpVars>>

\* A delivery that would hand over the newest message of the queue.
deliver_newest(queue) == queue[Len(queue)]

\* self._client.deliver_message(): the oldest message of the queue of the
\* connection.
deliver_message(queue) == Head(queue)

\* A delivery that would leave the message it hands over in the queue.
left_in_queue(queue) == queue

\* What deliver_message leaves in the queue of the connection: the message
\* it hands over is gone from it, before anything decodes it.
after_delivery(queue) == Tail(queue)

\* incoming_commands() is called: a new generator, which has run nothing
\* yet.
incoming_commands ==
    /\ mqtt_gen \in {"none", "ended"}
    /\ mqtt_gen' = "open"
    /\ mqtt_taken' = <<>>
    /\ mqtt_yielded' = <<>>
    /\ mqtt_raised' = Pending
    /\ UNCHANGED <<mqtt_conn, runVars, outVars, mqtt_inbox, mqtt_delivered,
                   mqtt_arrived, codecVars, httpVars>>

\* The consumer asks the generator for its next value and a message is
\* there: deliver_message returns it, and the generator yields what
\* CommandMessage.loads makes of it, or ends with what loads raises.
NextCommand ==
    /\ mqtt_gen = "open"
    /\ mqtt_inbox # <<>>
    /\ LET message == deliver_message(mqtt_inbox)
           decoded == CommandMessage_loads(Utf8Decode(message.data),
                                           "ImproperlyCommandFormatError")
       IN  /\ mqtt_taken' = Append(mqtt_taken, message)
           /\ IF decoded.ok
              THEN /\ mqtt_yielded' = Append(mqtt_yielded, decoded.val)
                   /\ UNCHANGED <<mqtt_gen, mqtt_raised>>
              ELSE /\ mqtt_gen' = "ended"
                   /\ mqtt_raised' = decoded
                   /\ UNCHANGED mqtt_yielded
    /\ mqtt_inbox' = after_delivery(mqtt_inbox)
    /\ UNCHANGED <<mqtt_conn, runVars, outVars, mqtt_delivered, mqtt_arrived,
                   codecVars, httpVars>>

MqttInit ==
    /\ call = [fn |-> "none"]
    /\ ret = Pending
    /\ HttpIdle
    /\ MqttIdle

\* The life of the connection.
Lifecycle ==
    \/ run
    \/ Connected
    \/ ConnectFails
    \/ SubAck
    \/ close

\* The client with a task that consumes the inbound commands and
\* another that publishes events.
MqttNext ==
    \/ Lifecycle
    \/ Deliver
    \/ incoming_commands
    \/ NextCommand
    \/ mqtt_send_event

MqttSpec == MqttInit /\ [][MqttNext]_vars

\* The client with a caller that publishes.
MqttPublishNext ==
    \/ Lifecycle
    \/ mqtt_send_event
    \/ mqtt_send_agent_command_status
    \/ mqtt_send_device_command_status
    \/ mqtt_send_logs

MqttPublishSpec == MqttInit /\ [][MqttPublishNext]_vars

\***************************************************************************
\* The pub/sub client: what it promises
\***************************************************************************

\* The text of the i-th message the generator took decodes.
Decodes(i) ==
    CommandMessage_loads(Utf8Decode(mqtt_taken[i].data),
                         "ImproperlyCommandFormatError").ok

\* C4: in one incoming_commands() sequence, a message that fails to decode
\* is the last one the sequence takes: the sequence has ended, what it
\* raised is ImproperlyCommandFormatError, and it yielded a value for each
\* message before the malformed one and for nothing else.
C4_DecodeFailureEnds ==
    \A i \in 1..Len(mqtt_taken) :
        ~Decodes(i) =>
            /\ i = Len(mqtt_taken)
            /\ mqtt_gen = "ended"
            /\ Len(mqtt_yielded) = i - 1
            /\ ~mqtt_raised.ok
            /\ mqtt_raised.exc = "ImproperlyCommandFormatError"

\* C4, the part about the end of the sequence alone: a message that fails
\* to decode is the last one taken, the sequence has ended with an
\* exception and yielded nothing for that message or after it.
C4_Ends ==
    \A i \in 1..Len(mqtt_taken) :
        ~Decodes(i) =>
            /\ i = Len(mqtt_taken)
            /\ mqtt_gen = "ended"
            /\ Len(mqtt_yielded) = i - 1
            /\ ~mqtt_raised.ok

\* C18: while every message the generator has taken is well formed, it
\* has yielded one value for each message it took, the decoded message,
\* in the order taken; and the messages it took, followed by those still
\* waiting in the connection, are the last messages the broker delivered,
\* in the order of their arrival, each once; whatever else was published
\* on the client meanwhile.
C18_InOrderOncePerMessage ==
    (mqtt_gen = "open" /\ \A i \in 1..Len(mqtt_taken) : Decodes(i)) =>
        /\ Len(mqtt_yielded) = Len(mqtt_taken)
        /\ \A i \in 1..Len(mqtt_taken) :
               Ok(mqtt_yielded[i]) =
                   CommandMessage_loads(Utf8Decode(mqtt_taken[i].data),
                                        "ImproperlyCommandFormatError")
        /\ Len(mqtt_taken) + Len(mqtt_inbox) <= Len(mqtt_arrived)
        /\ mqtt_taken \o mqtt_inbox =
               SubSeq(mqtt_arrived,
                      Len(mqtt_arrived) - Len(mqtt_taken) - Len(mqtt_inbox) + 1,
                      Len(mqtt_arrived))

\* C18: two different well-formed messages arrived and one sequence has
\* yielded both, the first first, with an event published on the client
\* since.
C18_Witness ==
    /\ mqtt_gen = "open"
    /\ Len(mqtt_arrived) = 2
    /\ mqtt_taken = mqtt_arrived
    /\ Len(mqtt_yielded) = 2
    /\ mqtt_yielded[1] # mqtt_yielded[2]
    /\ Ok(mqtt_yielded[1]) =
           CommandMessage_loads(Utf8Decode(mqtt_arrived[1].data),
                                "ImproperlyCommandFormatError")
    /\ mqtt_op.op = "send_event"
    /\ Len(mqtt_published) = 1

\* C19: a message is taken from the connection and a message is
\* published only while the client is connected.
C19_OnlyWhileConnected ==
    [][(\/ Len(mqtt_taken') > Len(mqtt_taken)
        \/ (mqtt_op' # mqtt_op /\ mqtt_published' # <<>>))
           => mqtt_conn = "connected"]_vars

\* C19, the part about publishing alone: a message is published only
\* while the client is connected; and the part about reconnecting: a
\* client that is disconnected connects only when run() is called.
C19_PublishOnlyWhileConnected ==
    [][/\ (mqtt_op' # mqtt_op /\ mqtt_published' # <<>>)
           => mqtt_conn = "connected"
       /\ (mqtt_conn = "disconnected" /\ mqtt_conn' = "connected")
           => mqtt_run = "connecting"]_vars

\* How many of the messages that arrived were taken by the sequences
\* before the present one.
TakenBefore == Len(mqtt_arrived) - Len(mqtt_taken) - Len(mqtt_inbox)

\* C23: every message that arrived was taken by an earlier sequence, or
\* by the present one, or waits in the connection, in the order of
\* arrival and each in one place only; a sequence that has ended has
\* taken the malformed message it ended on, which therefore waits for no
\* one; an open sequence holds no exception and has yielded the decoded
\* value of each message it took, all of them well formed; and after a
\* sequence has ended, incoming_commands() can be called again.
C23_RestartAfterFailure ==
    /\ TakenBefore >= 0
    /\ mqtt_taken \o mqtt_inbox =
           SubSeq(mqtt_arrived, TakenBefore + 1, Len(mqtt_arrived))
    /\ mqtt_gen = "ended" =>
           /\ mqtt_taken # <<>>
           /\ ~Decodes(Len(mqtt_taken))
           /\ Len(mqtt_yielded) = Len(mqtt_taken) - 1
           /\ ENABLED incoming_commands
    /\ mqtt_gen = "open" =>
           /\ mqtt_raised = [t |-> "pending"]
           /\ Len(mqtt_yielded) = Len(mqtt_taken)
           /\ \A i \in 1..Len(mqtt_taken) :
                  /\ Decodes(i)
                  /\ Ok(mqtt_yielded[i]) =
                         CommandMessage_loads(Utf8Decode(mqtt_taken[i].data),
                                              "ImproperlyCommandFormatError")

\* C23: a malformed message arrived and then a well-formed one; a
\* sequence other than the present one took the malformed message, and
\* the present sequence has yielded the well-formed one.
C23_Witness ==
    /\ mqtt_gen = "open"
    /\ Len(mqtt_arrived) = 2
    /\ ~CommandMessage_loads(Utf8Decode(mqtt_arrived[1].data),
                             "ImproperlyCommandFormatError").ok
    /\ TakenBefore = 1
    /\ mqtt_taken = <<mqtt_arrived[2]>>
    /\ Len(mqtt_yielded) = 1
    /\ mqtt_inbox = <<>>

\* run() has made both of its calls in order: connect, then subscribe to
\* the inbound topic of the agent at QoS 1.
ConnectThenSubscribe ==
    mqtt_calls =
        <<[call |-> "connect", uri |-> BrokerUri],
          [call |-> "subscribe",
           topics |-> <<[topic |-> "iot/cmd/agent/2/fmt/json", qos |-> 1]>>]>>

\* C5: run() connects and then subscribes to iot/cmd/agent/{agent_id}/fmt/json
\* at QoS 1, and once the broker has answered the subscription with 0x80,
\* run() has failed with SubscriptionError.
C5_RejectedSubscription ==
    /\ mqtt_run \in {"subscribing", "returned"} => ConnectThenSubscribe
    /\ mqtt_ack = JInt(128) =>
           /\ mqtt_run = "raised"
           /\ mqtt_run_result = Raise("SubscriptionError", None)

\* C5, the order of the calls alone: whenever run() is past connect, it
\* has connected first and subscribed second, at QoS 1.
C5_Order ==
    mqtt_run \in {"subscribing", "returned"} => ConnectThenSubscribe

\* The topic the last outbound operation is to publish to.
FixedTopic ==
    CASE mqtt_op.op = "send_event" -> "iot/event/fmt/json"
      [] mqtt_op.op = "send_agent_command_status" ->
           "iot/cmd/agent/2/status/fmt/json"
      [] mqtt_op.op = "send_device_command_status" ->
           IF mqtt_op.device_id = 1
           THEN "iot/cmd/device/1/status/fmt/json"
           ELSE "iot/cmd/device/2/status/fmt/json"
      [] mqtt_op.op = "send_logs" -> "iot/log/fmt/json"

\* C9: an outbound operation that returns has published exactly one
\* message, at QoS 1, to the fixed topic of the operation; one that raises
\* (its message cannot be encoded) has published nothing; so no operation
\* publishes to any other topic.
C9_OnePublishToFixedTopic ==
    mqtt_op.op # "none" =>
        IF mqtt_op_result.ok
        THEN /\ Len(mqtt_published) = 1
             /\ mqtt_published[1].qos = 1
             /\ mqtt_published[1].topic = FixedTopic
        ELSE mqtt_published = <<>>

\* C9: the status of a command of device 1 was published by a client
\* whose agent is 2.
C9_Witness ==
    /\ mqtt_op.op = "send_device_command_status"
    /\ mqtt_op.device_id = 1
    /\ TheAuth.agent_id = 2
    /\ mqtt_op_result.ok
    /\ Len(mqtt_published) = 1
    /\ mqtt_published[1].topic = "iot/cmd/device/1/status/fmt/json"

\***************************************************************************
\* An agent: a process that makes one of the two clients and uses it
\***************************************************************************

Clients == {"http.Client", "mqtt.Client"}

AgentInit ==
    /\ call \in {[fn |-> c] : c \in Clients}
    /\ ret = Pending
    /\ HttpIdle
    /\ MqttIdle

UseHttp ==
    /\ call.fn = "http.Client"
    /\ HttpNext

UseMqtt ==
    /\ call.fn = "mqtt.Client"
    /\ MqttPublishNext

AgentNext ==
    \/ UseHttp
    \/ UseMqtt

AgentSpec == AgentInit /\ [][AgentNext]_vars

\* The argument of the last request/response operation cannot be
\* encoded, so the operation leaves before any request.
Unencodable ==
    /\ http_op.op \in {"send_agent_command_status",
                       "send_device_command_status"}
    /\ http_op.status.timestamp.t \notin {"null", "datetime"}

\* C15: an operation of the request/response client makes exactly one
\* request (none when its argument cannot be encoded), also once it has
\* failed on the status, on the decoding or on the transport; an
\* outbound operation of the pub/sub client makes exactly one publish
\* when it returns and none when it raises.
C15_NoRetry ==
    /\ http_op.op # "none" =>
           Len(http_sent) = IF Unencodable THEN 0 ELSE 1
    /\ mqtt_op.op # "none" =>
           Len(mqtt_published) = IF mqtt_op_result.ok THEN 1 ELSE 0

\* C15: get_config was answered 503 and raised, having made one request.
C15_Witness ==
    /\ Left
    /\ http_op.op = "get_config"
    /\ http_response.t = "response"
    /\ http_response.status = 503
    /\ ~http_result.ok
    /\ Len(http_sent) = 1

StatusReports == {"send_agent_command_status", "send_device_command_status"}

\* What the last status report of the pub/sub client published.
PublishedReport == Utf8Decode(mqtt_published[1].payload).doc.o

\* C20: a status report whose timestamp is an instant (or, on the
\* request/response client, absent) is encoded and sent, with the token
\* of its status and with its reason as given, whatever status the
\* report before it carried.
C20_EveryReportIsSent ==
    /\ (http_op.op \in StatusReports /\ ~Unencodable) =>
           /\ Len(http_sent) = 1
           /\ http_sent[1].kwargs.json.o["status"] =
                  JStr(http_op.status.status.name)
           /\ http_sent[1].kwargs.json.o["reason"] = http_op.status.reason
    /\ (mqtt_op.op \in StatusReports /\ mqtt_op.msg.timestamp.t = "datetime") =>
           /\ mqtt_op_result.ok
           /\ Len(mqtt_published) = 1
           /\ PublishedReport["status"] = JStr(mqtt_op.msg.status.name)
           /\ PublishedReport["reason"] = mqtt_op.msg.reason

\* C20: the status new of a command was reported right after the status
\* done, and was sent.
C20_Witness ==
    /\ http_op.op = "send_agent_command_status"
    /\ http_op.after = CommandStatus("done")
    /\ http_op.status.status = CommandStatus("new")
    /\ Len(http_sent) = 1
    /\ http_sent[1].kwargs.json.o["status"] = JStr("new")

\* The broker has just answered the subscription of run() with 0x80.
Rejected == mqtt_run = "subscribing" /\ mqtt_ack' = JInt(128)

\* C24: when the broker rejects the subscription, run() fails with
\* SubscriptionError and the connection it opened is still open; and the
\* connection is closed by close() alone.
C24_FailedRunStaysConnected ==
    [][/\ Rejected =>
              /\ mqtt_run' = "raised"
              /\ mqtt_run_result' = Raise("SubscriptionError", None)
              /\ mqtt_conn' = "connected"
       /\ (mqtt_conn = "connected" /\ mqtt_conn' = "disconnected") =>
              mqtt_run \in {"returned", "raised"} /\ UNCHANGED mqtt_run]_vars

\* C24, the part about the connection alone: when the broker rejects the
\* subscription, the connection run() opened is still open once run() is
\* over, and the connection is closed by close() alone.
C24_StaysConnected ==
    [][/\ Rejected =>
              /\ mqtt_run' \in {"returned", "raised"}
              /\ mqtt_conn' = "connected"
       /\ (mqtt_conn = "connected" /\ mqtt_conn' = "disconnected") =>
              mqtt_run \in {"returned", "raised"} /\ UNCHANGED mqtt_run]_vars

=============================================================================
